---- MODULE Spec2Model ----
(***************************************************************************)
(* A model of django_mapper's static analysis core: the import resolver's  *)
(* cycle detection, the URL mapper's route extraction, the view analyzer,  *)
(* the model tracker and the flow builder, as driven by                     *)
(* StaticAnalyzer.analyze.                                                  *)
(*                                                                          *)
(* Python strings are TLA+ strings (Len, \o, SubSeq act on them); Python    *)
(* lists are sequences; a Python dict is a pair of its keys in insertion    *)
(* order and a function on them; None is the string "None" where a value    *)
(* of another shape is expected.                                            *)
(***************************************************************************)
EXTENDS Integers, Sequences, FiniteSets, TLC

VARIABLES
    \* ---- import_resolver.find_circular_dependencies ----
    dpc,                \* "idle", "ready" (graph built) or "done" (cycles found)
    dependency_graph,   \* [keys: Seq(file), depends_on: [file -> Seq(file)]]
    circular,           \* the list of cycles find_circular_dependencies returned
    tree,               \* the last get_dependency_tree call: arguments and result
    \* ---- url_mapper.URLMapper ----
    upc,                \* "idle", "ready" or "done" (extract_urls returned)
    ucalls,             \* the number of extract_urls calls made on the mapper
    url_project,        \* the routing files and view files on disk
    url_patterns,       \* URLMapper.url_patterns, the accumulator
    extracted,          \* the list extract_urls returned
    \* ---- StaticAnalyzer.analyze and FlowBuilder.build_complete_flow ----
    project,            \* the project's files on disk
    hash_seed,          \* the interpreter's string-hash seed (set iteration order)
    pc,                 \* the pipeline stage reached, "crashed" after an uncaught error
    apps,               \* the list _find_django_apps returned
    parsed_files,       \* StaticAnalyzer.parsed_files
    routes,             \* url_patterns as returned by extract_urls
    models,             \* ModelTracker.find_models()
    views,              \* ViewAnalyzer.analyze_views(url_patterns)
    nodes,              \* FlowBuilder.nodes
    edges,              \* FlowBuilder.edges
    flow_sequences,     \* FlowBuilder.flow_sequences
    runs,               \* the number of analyze runs started
    previous,           \* the result of the previous analyze run, "None" before
    \* ---- ASTParser._extract_imports and ImportResolver ----
    ipc,                \* "idle", then the import-resolution step reached
    import_project,     \* the files on disk and the import statements they hold
    all_files,          \* parsed_files: per file its 'imports' and 'resolved_imports'
    module_map,         \* ImportResolver.module_map
    graph,              \* the dict build_dependency_graph returned
    \* ---- middleware.request_logger.RequestLoggerMiddleware ----
    lpc,                \* "idle" or "serving"
    enabled,            \* self.enabled
    lcalls,             \* the number of requests the middleware was called with
    served,             \* those of them whose path is logged (not excluded)
    log_file,           \* the lines of requests.jsonl
    runtime_file        \* runtime_data.json: absent, or the dict it holds

depVars  == <<dpc, dependency_graph, circular, tree>>
urlVars  == <<upc, ucalls, url_project, url_patterns, extracted>>
flowVars == <<project, hash_seed, pc, apps, parsed_files, routes, models, views,
              nodes, edges, flow_sequences, runs, previous>>
impVars  == <<ipc, import_project, all_files, module_map, graph>>
logVars  == <<lpc, enabled, lcalls, served, log_file, runtime_file>>
vars     == <<depVars, urlVars, flowVars, impVars, logVars>>

None == "None"

(***************************************************************************)
(* Generic helpers on sequences and strings                                *)
(***************************************************************************)
Range(s) == {s[i] : i \in 1..Len(s)}

\* Sequences over S without repetition, of length at most n.
RECURSIVE DistinctSeqs(_, _)
DistinctSeqs(S, n) ==
    IF n = 0 \/ S = {} THEN {<<>>}
    ELSE LET shorter == DistinctSeqs(S, n - 1)
         IN  shorter \cup
             UNION {{Append(t, x) : x \in S \ Range(t)} : t \in shorter}

\* Sequences over S of length at most n.
SeqsUpTo(S, n) == UNION {[1..k -> S] : k \in 0..n}

Permutations_(S) == {s \in DistinctSeqs(S, Cardinality(S)) : Len(s) = Cardinality(S)}

\* list.index(x): the first position of x in s (0 when absent).
IndexOf(s, x) ==
    IF \E i \in 1..Len(s) : s[i] = x
    THEN CHOOSE i \in 1..Len(s) : s[i] = x /\ \A j \in 1..(i - 1) : s[j] # x
    ELSE 0

\* `sub in s` on Python strings.
Contains(s, sub) ==
    \/ Len(sub) = 0
    \/ \E i \in 1..(Len(s) - Len(sub) + 1) : SubSeq(s, i, i + Len(sub) - 1) = sub

StartsWith(s, p) == Len(s) >= Len(p) /\ SubSeq(s, 1, Len(p)) = p

\* s.replace(from, to) for a one-character `from`.
RECURSIVE ReplaceChar(_, _, _)
ReplaceChar(s, from, to) ==
    IF Len(s) = 0 THEN ""
    ELSE (IF SubSeq(s, 1, 1) = from THEN to ELSE SubSeq(s, 1, 1))
         \o ReplaceChar(Tail(s), from, to)

\* s.replace(sub, '') where sub occurs at most once, as a suffix or inside.
RemoveOnce(s, sub) ==
    IF ~Contains(s, sub) \/ Len(sub) = 0 THEN s
    ELSE LET i == CHOOSE k \in 1..(Len(s) - Len(sub) + 1) :
                      /\ SubSeq(s, k, k + Len(sub) - 1) = sub
                      /\ \A m \in 1..(k - 1) : SubSeq(s, m, m + Len(sub) - 1) # sub
         IN  SubSeq(s, 1, i - 1) \o SubSeq(s, i + Len(sub), Len(s))

\* s.split('.')[-1]
LastDotted(s) ==
    IF ~Contains(s, ".") THEN s
    ELSE LET i == CHOOSE k \in 1..Len(s) :
                      /\ SubSeq(s, k, k) = "."
                      /\ \A m \in (k + 1)..Len(s) : SubSeq(s, m, m) # "."
         IN  SubSeq(s, i + 1, Len(s))

\* s.split('.')[0]
FirstDotted(s) ==
    IF ~Contains(s, ".") THEN s
    ELSE LET i == CHOOSE k \in 1..Len(s) :
                      /\ SubSeq(s, k, k) = "."
                      /\ \A m \in 1..(k - 1) : SubSeq(s, m, m) # "."
         IN  SubSeq(s, 1, i - 1)

(***************************************************************************)
(* import_resolver.py: find_circular_dependencies                          *)
\* The concatenation of a sequence of sequences.
RECURSIVE Flatten(_)
Flatten(ss) == IF Len(ss) = 0 THEN <<>> ELSE Head(ss) \o Flatten(Tail(ss))

(***************************************************************************)
Files == {"a.py", "b.py", "c.py"}
MaxDeps == 2
MaxTreeDepth == 2

\* dependency_graph.get(node, {}).get('depends_on', [])
DependsOn(g, node) ==
    IF node \in Range(g.keys) THEN g.depends_on[node] ELSE <<>>

\* The test `if node not in visited` of the loop over the graph's keys.
RootUnvisited(node, visited) == node \notin visited

\* A variant of the entry step that leaves rec_stack alone.
EnterNodeNoStack(st, node) == [st EXCEPT !.visited = @ \cup {node}]

\* visited.add(node); rec_stack.add(node)
EnterNode(st, node) ==
    [st EXCEPT !.visited = @ \cup {node}, !.rec_stack = @ \cup {node}]

\* A variant that records the whole path, not the slice from cycle_start.
RecordCycleWholePath(st, path, neighbor) ==
    LET cycle == Append(path, neighbor)
    IN  IF cycle \in Range(st.cycles) THEN st
        ELSE [st EXCEPT !.cycles = Append(@, cycle)]

\* cycle = path[cycle_start:] + [neighbor]; appended unless already listed.
RecordCycle(st, path, neighbor) ==
    LET cycle_start == IndexOf(path, neighbor)
        cycle == Append(SubSeq(path, cycle_start, Len(path)), neighbor)
    IN  IF cycle \in Range(st.cycles) THEN st
        ELSE [st EXCEPT !.cycles = Append(@, cycle)]

RECURSIVE Dfs(_, _, _, _), DfsNeighbors(_, _, _, _, _)
\* dfs(node, path): st carries cycles, visited and rec_stack.
Dfs(g, node, path, st) ==
    LET path1 == Append(path, node)
        st1 == EnterNode(st, node)
        st2 == DfsNeighbors(g, node, path1, 1, st1)
    IN  [st2 EXCEPT !.rec_stack = @ \ {node}]

\* The loop over the node's neighbours, from the i-th on.
DfsNeighbors(g, node, path, i, st) ==
    LET nbrs == DependsOn(g, node) IN
    IF i > Len(nbrs) THEN st
    ELSE LET neighbor == nbrs[i]
             st1 == IF neighbor \notin st.visited
                    THEN Dfs(g, neighbor, path, st)  \* path.copy()
                    ELSE IF neighbor \in st.rec_stack
                         THEN RecordCycle(st, path, neighbor)
                         ELSE st
         IN  DfsNeighbors(g, node, path, i + 1, st1)

RECURSIVE DfsRoots(_, _, _)
\* for node in dependency_graph: if node not in visited: dfs(node, [])
DfsRoots(g, i, st) ==
    IF i > Len(g.keys) THEN st
    ELSE DfsRoots(g, i + 1,
                  IF RootUnvisited(g.keys[i], st.visited)
                  THEN Dfs(g, g.keys[i], <<>>, st)
                  ELSE st)

find_circular_dependencies(g) ==
    DfsRoots(g, 1, [cycles |-> <<>>, visited |-> {}, rec_stack |-> {}]).cycles

\* The graphs build_dependency_graph can return over Files: every file is a
\* key (in the order the files were parsed) and depends_on is list(set(...)),
\* a list without repetition in an arbitrary order.
DepGraphs ==
    {[keys |-> k, depends_on |-> d] :
        k \in Permutations_(Files),
        d \in [Files -> DistinctSeqs(Files, MaxDeps)]}

\* No get_dependency_tree call yet.
NoTree == [file |-> "", max_depth |-> 0, result |-> <<>>]

\* A variant of the test of build_tree that looks at the depth alone.
PrunedByDepth(node, depth, visited, max_depth) == depth > max_depth
\* if depth > max_depth or node in visited: return None
Pruned(node, depth, visited, max_depth) ==
    depth > max_depth \/ node \in visited

RECURSIVE build_tree(_, _, _, _, _)
\* build_tree of get_dependency_tree: <<>> stands for None, <<t>> for the
\* dict t.  visited holds the files on the way from the root: every child
\* is built on a copy of it.
build_tree(g, node, depth, visited, max_depth) ==
    IF Pruned(node, depth, visited, max_depth) THEN <<>>
    ELSE LET deps == DependsOn(g, node) IN
         <<[file         |-> node,
            dependencies |->
                Flatten([i \in 1..Len(deps) |->
                    build_tree(g, deps[i], depth + 1, visited \cup {node},
                               max_depth)])]>>

get_dependency_tree(file_path, g, max_depth) ==
    build_tree(g, file_path, 0, {}, max_depth)

DepInit ==
    /\ dpc = "ready"
    /\ dependency_graph \in DepGraphs
    /\ circular = <<>>
    /\ tree = NoTree

DepIdle ==
    /\ dpc = "idle"
    /\ dependency_graph = None
    /\ circular = <<>>
    /\ tree = NoTree

FindCircular ==
    /\ dpc = "ready"
    /\ dpc' = "done"
    /\ circular' = find_circular_dependencies(dependency_graph)
    /\ UNCHANGED <<dependency_graph, tree>>
    /\ UNCHANGED <<urlVars, flowVars, impVars, logVars>>

\* get_dependency_tree(file_path, dependency_graph, max_depth)
GetDependencyTree ==
    /\ dpc = "ready"
    /\ dpc' = "tree"
    /\ \E file_path \in Files, max_depth \in 0..MaxTreeDepth :
           tree' = [file      |-> file_path,
                    max_depth |-> max_depth,
                    result    |-> get_dependency_tree(file_path, dependency_graph,
                                                      max_depth)]
    /\ UNCHANGED <<dependency_graph, circular>>
    /\ UNCHANGED <<urlVars, flowVars, impVars, logVars>>

(***************************************************************************)
(* url_mapper.py: URLMapper                                                *)
(*                                                                         *)
(* The mapper reads routing files as text, with regular expressions.  A    *)
(* routing file is modelled by what those expressions find in it: its      *)
(* include(...) lines, its path(...) lines (the pattern and the text of    *)
(* the view argument) and its router.register(...) lines, in text order.   *)
(* A views.py is modelled by its classes, in text order, each with its     *)
(* @action methods.                                                        *)
(***************************************************************************)
MaxPaths == 2
MaxCalls == 2
MaxIncludeDepth == 3

\* include_path = project_path / part / ... with suffix .py (lines 81-84)
ModuleFile(module) == ReplaceChar(module, ".", "/") \o ".py"

\* match.group(2).strip() of r'path\(['"]([^'"]*)['"],\s*([^,\)]+)': the
\* text after the pattern up to, and without, the first ',' or ')'.  (The
\* modelled references carry no blanks, so strip() changes nothing.)
CapturedRef(text) ==
    LET stops == {i \in 1..Len(text) : SubSeq(text, i, i) \in {",", ")"}}
    IN  IF stops = {} THEN text
        ELSE SubSeq(text, 1, (CHOOSE i \in stops : \A j \in stops : i <= j) - 1)

\* view_name and view_type of a path(...) line (lines 100-108)
ViewOf(view_ref) ==
    IF Contains(view_ref, ".as_view()")
    THEN [view_name |-> RemoveOnce(view_ref, ".as_view()"), view_type |-> "class"]
    ELSE IF Contains(view_ref, "ViewSet")
         THEN [view_name |-> view_ref, view_type |-> "viewset"]
         ELSE [view_name |-> view_ref, view_type |-> "function"]

\* The dict appended for one path(...) line (lines 110-118).  _extract_url_name
\* searches match.group(0), which ends with the view reference, so the name
\* is always ''.
DjangoRoute(decl, prefix) ==
    [pattern   |-> prefix \o decl.pattern,
     view_name |-> ViewOf(CapturedRef(decl.view_ref)).view_name,
     view_type |-> ViewOf(CapturedRef(decl.view_ref)).view_type,
     name      |-> "",
     methods   |-> <<"GET", "POST", "PUT", "DELETE">>,
     action    |-> None]

RECURSIVE DjangoRoutes(_, _, _)
\* The loop over the path(...) matches, from the i-th on; include( lines are
\* skipped there (lines 92-98) and are not among decls.
DjangoRoutes(decls, i, prefix) ==
    IF i > Len(decls) THEN <<>>
    ELSE <<DjangoRoute(decls[i], prefix)>> \o DjangoRoutes(decls, i + 1, prefix)

\* _find_viewset_file: views.py beside the routing file, if its text holds
\* 'class <viewset_name>' (a substring test: any class whose name starts
\* with viewset_name matches).  The views/ directory branch is not modelled:
\* the modelled projects have no views/ directory.
FindViewsetFile(fs, viewset_name, dir) ==
    IF /\ dir \in DOMAIN fs.views
       /\ \E i \in 1..Len(fs.views[dir]) :
              StartsWith(fs.views[dir][i].name, viewset_name)
    THEN dir
    ELSE None

RECURSIVE ActionsOfClasses(_, _)
\* re.findall(r'@action.*\n\s*def\s+(\w+)', view_content): every @action
\* method of the file, in text order.
ActionsOfClasses(classes, i) ==
    IF i > Len(classes) THEN <<>>
    ELSE classes[i].actions \o ActionsOfClasses(classes, i + 1)

\* custom_actions of lines 166-170
CustomActions(fs, viewset_name, dir) ==
    LET view_file == FindViewsetFile(fs, viewset_name, dir) IN
    IF view_file = None THEN <<>>
    ELSE ActionsOfClasses(fs.views[view_file], 1)

ViewsetRoute(full_prefix, suffix, viewset_name, name, methods, action) ==
    [pattern   |-> full_prefix \o suffix,
     view_name |-> "views." \o viewset_name,
     view_type |-> "viewset",
     name      |-> name,
     methods   |-> methods,
     action    |-> action]

RECURSIVE ActionRoutes(_, _, _, _, _)
\* lines 172-181
ActionRoutes(actions, i, full_prefix, url_prefix, viewset_name) ==
    IF i > Len(actions) THEN <<>>
    ELSE <<ViewsetRoute(full_prefix, "{id}/" \o actions[i] \o "/", viewset_name,
                        url_prefix \o "-" \o actions[i], <<"GET", "POST">>,
                        actions[i])>>
         \o ActionRoutes(actions, i + 1, full_prefix, url_prefix, viewset_name)

\* viewset_urls of one registration (lines 137-186).  The register pattern
\* captures the target with (\w+) followed by ',' or ')': a dotted target
\* (views.T) does not match and the registration yields nothing.
RegistrationRoutes(fs, reg, prefix, dir) ==
    IF Contains(reg.target, ".") THEN <<>>
    ELSE LET full_prefix == prefix \o reg.prefix \o "/" IN
         <<ViewsetRoute(full_prefix, "", reg.target, reg.prefix \o "-list",
                        <<"GET", "POST">>, "list/create"),
           ViewsetRoute(full_prefix, "{id}/", reg.target, reg.prefix \o "-detail",
                        <<"GET", "PUT", "PATCH", "DELETE">>,
                        "retrieve/update/delete")>>
         \o ActionRoutes(CustomActions(fs, reg.target, dir), 1, full_prefix,
                         reg.prefix, reg.target)

RECURSIVE DrfRoutes(_, _, _, _, _)
\* _parse_drf_routers: the loop over the registrations, from the i-th on.
DrfRoutes(fs, regs, i, prefix, dir) ==
    IF i > Len(regs) THEN <<>>
    ELSE RegistrationRoutes(fs, regs[i], prefix, dir)
         \o DrfRoutes(fs, regs, i + 1, prefix, dir)

RECURSIVE ParseUrlconf(_, _, _, _, _), ParseIncludes(_, _, _, _, _, _)
\* _parse_urlconf(urlconf_path, prefix) appending to acc (self.url_patterns).
\* depth counts the nested calls: past MaxIncludeDepth the interpreter's
\* RecursionError is raised and caught by the innermost call (line 69),
\* which has appended nothing.
ParseUrlconf(fs, path, prefix, depth, acc) ==
    IF depth > MaxIncludeDepth THEN acc
    ELSE LET content == fs.files[path]
             a1 == ParseIncludes(fs, content.includes, 1, prefix, depth, acc)
             a2 == a1 \o DjangoRoutes(content.paths, 1, prefix)
         IN  a2 \o DrfRoutes(fs, content.registers, 1, prefix, content.dir)

\* The loop over the include(...) matches (lines 79-87), from the i-th on.
ParseIncludes(fs, incs, i, prefix, depth, acc) ==
    IF i > Len(incs) THEN acc
    ELSE LET include_path == ModuleFile(incs[i].module)
             a1 == IF include_path \in DOMAIN fs.files
                   THEN ParseUrlconf(fs, include_path, prefix \o incs[i].prefix,
                                     depth + 1, acc)
                   ELSE acc
         IN  ParseIncludes(fs, incs, i + 1, prefix, depth, a1)

\* _find_root_urlconf: the first urls.py whose directory holds settings.py
\* (or settings/), else the first urls.py found.
FindRootUrlconf(fs) ==
    LET with_settings == {i \in 1..Len(fs.order) :
                              fs.files[fs.order[i]].dir \in fs.settings}
    IN  IF with_settings # {}
        THEN fs.order[CHOOSE i \in with_settings :
                          \A j \in with_settings : i <= j]
        ELSE IF Len(fs.order) > 0 THEN fs.order[1] ELSE None

RECURSIVE ParseOthers(_, _, _, _)
\* The scan of every *urls.py other than the root (lines 28-32).
ParseOthers(fs, i, root, acc) ==
    IF i > Len(fs.order) THEN acc
    ELSE ParseOthers(fs, i + 1, root,
                     IF fs.order[i] # root
                     THEN ParseUrlconf(fs, fs.order[i], "", 1, acc)
                     ELSE acc)

\* key = f"{pattern['pattern']}{pattern['view_name']}" (line 37)
DedupKey(r) == r.pattern \o r.view_name

RECURSIVE UniquePatterns(_, _, _, _)
\* The post-processing loop (lines 35-41): the first pattern of each key, in
\* first-occurrence order (a dict keeps insertion order).
UniquePatterns(patterns, i, seen, out) ==
    IF i > Len(patterns) THEN out
    ELSE IF DedupKey(patterns[i]) \in seen
         THEN UniquePatterns(patterns, i + 1, seen, out)
         ELSE UniquePatterns(patterns, i + 1, seen \cup {DedupKey(patterns[i])},
                             Append(out, patterns[i]))

\* self.url_patterns after extract_urls() on an instance whose accumulator
\* holds acc.
CollectUrls(fs, acc) ==
    LET root == FindRootUrlconf(fs) IN
    IF root = None THEN acc
    ELSE ParseOthers(fs, 1, root, ParseUrlconf(fs, root, "", 1, acc))

\* The list extract_urls() returns.
extract_urls(fs, acc) ==
    IF FindRootUrlconf(fs) = None THEN <<>>
    ELSE UniquePatterns(CollectUrls(fs, acc), 1, {}, <<>>)

\* The modelled projects: a root routing file proj/urls.py and an app routing
\* file app/urls.py, found by rglob in either order; settings.py beside the
\* root file or absent; app/views.py absent or holding some view classes.
RootPathDecls ==
    {[pattern |-> p, view_ref |-> v] : p \in {"item", "items"}, v \in {"view", "sview"}}

AppPathChoices ==
    {<<>>,
     <<[pattern |-> "list/", view_ref |-> "ListView.as_view()"]>>,
     <<[pattern |-> "item", view_ref |-> "view"]>>}

IncludeChoices == {<<>>, <<[prefix |-> "api/", module |-> "app.urls"]>>}

RegisterChoices ==
    {<<>>, <<[prefix |-> "items", target |-> "ItemViewSet"]>>}

ViewFileChoices ==
    {<<>>,
     <<[name |-> "ItemViewSet", actions |-> <<>>]>>,
     <<[name |-> "ItemViewSet", actions |-> <<"archive">>]>>,
     <<[name |-> "ItemViewSet", actions |-> <<"archive">>],
       [name |-> "OtherViewSet", actions |-> <<"publish">>]>>,
     <<[name |-> "OtherViewSet", actions |-> <<"publish">>]>>}

UrlProjects ==
    {[order    |-> o,
      settings |-> st,
      views    |-> v,
      files    |-> [f \in {"proj/urls.py", "app/urls.py"} |->
                      IF f = "proj/urls.py"
                      THEN [dir |-> "proj", includes |-> inc, paths |-> rp,
                            registers |-> <<>>]
                      ELSE [dir |-> "app", includes |-> <<>>, paths |-> ap,
                            registers |-> rg]]] :
        o \in Permutations_({"proj/urls.py", "app/urls.py"}),
        st \in {{}, {"proj"}},
        v \in {[d \in {} |-> <<>>]} \cup {[d \in {"app"} |-> c] : c \in ViewFileChoices},
        inc \in IncludeChoices,
        rp \in SeqsUpTo(RootPathDecls, MaxPaths),
        ap \in AppPathChoices,
        rg \in RegisterChoices}

\* Projects whose app routing file includes itself, or includes the root
\* routing file that may include it in turn.
CyclicIncludeChoices ==
    {<<[prefix |-> "v/", module |-> "app.urls"]>>,
     <<[prefix |-> "r/", module |-> "proj.urls"]>>}
CyclicUrlProjects ==
    {[order    |-> o,
      settings |-> st,
      views    |-> [d \in {} |-> <<>>],
      files    |-> [f \in {"proj/urls.py", "app/urls.py"} |->
                      IF f = "proj/urls.py"
                      THEN [dir |-> "proj", includes |-> inc, paths |-> rp,
                            registers |-> <<>>]
                      ELSE [dir |-> "app", includes |-> ainc,
                            paths |-> <<[pattern |-> "item", view_ref |-> "view"]>>,
                            registers |-> <<>>]]] :
        o \in Permutations_({"proj/urls.py", "app/urls.py"}),
        st \in {{}, {"proj"}},
        inc \in IncludeChoices,
        ainc \in CyclicIncludeChoices,
        rp \in SeqsUpTo(RootPathDecls, 1)}

UrlInit ==
    /\ upc = "ready"
    /\ ucalls = 0
    /\ url_project \in UrlProjects \cup CyclicUrlProjects
    /\ url_patterns = <<>>
    /\ extracted = <<>>

\* URLMapper.extract_urls() on the same mapper: url_patterns is an instance
\* attribute set once in __init__ and appended to by every call.
ExtractUrls ==
    /\ upc \in {"ready", "done"}
    /\ ucalls < MaxCalls
    /\ upc' = "done"
    /\ ucalls' = ucalls + 1
    /\ url_patterns' = CollectUrls(url_project, url_patterns)
    /\ extracted' = extract_urls(url_project, url_patterns)
    /\ UNCHANGED url_project
    /\ UNCHANGED <<depVars, flowVars, impVars, logVars>>

UrlIdle ==
    /\ upc = "idle"
    /\ ucalls = 0
    /\ url_project = None
    /\ url_patterns = <<>>
    /\ extracted = <<>>

FlowIdle ==
    /\ project = None
    /\ hash_seed = None
    /\ pc = "idle"
    /\ apps = None
    /\ parsed_files = None
    /\ routes = None
    /\ models = None
    /\ views = None
    /\ nodes = <<>>
    /\ edges = <<>>
    /\ flow_sequences = <<>>
    /\ runs = 0
    /\ previous = None

ImpIdle ==
    /\ ipc = "idle"
    /\ import_project = None
    /\ all_files = <<>>
    /\ module_map = <<>>
    /\ graph = None

(***************************************************************************)
(* StaticAnalyzer.analyze and the analyzers it drives                      *)
(*                                                                         *)
(* A Python file is modelled by what ast.parse finds in it: whether it     *)
(* parses (ok), its top-level classes and its top-level functions, in      *)
(* text order.  A class has a name, base-class expressions, field          *)
(* assignments and methods; a function or method has a name and the calls  *)
(* of its body, each call the value of its own statement (so ast.walk      *)
(* meets them in text order), with the call's name and its first           *)
(* positional argument when that is a plain name ("" otherwise).  A file   *)
(* with ok = FALSE has a syntax error after those definitions: its text    *)
(* still holds them, ast.parse raises.                                     *)
(*                                                                         *)
(* A dict is the sequence of its [key, value] items in insertion order.    *)
(***************************************************************************)
MaxRoutes == 2
MaxRuns == 2

DictHas(d, k) == \E i \in 1..Len(d) : d[i].key = k
DictGet(d, k) == d[CHOOSE i \in 1..Len(d) : d[i].key = k].value
\* d[k] = v: an existing key keeps its position.
DictPut(d, k, v) ==
    IF DictHas(d, k)
    THEN [i \in 1..Len(d) |-> IF d[i].key = k THEN [key |-> k, value |-> v] ELSE d[i]]
    ELSE Append(d, [key |-> k, value |-> v])
DictKeys(d) == [i \in 1..Len(d) |-> d[i].key]

\* list(s) for a set s of strings: the iteration order follows the strings'
\* hashes, which the interpreter salts per process (hash randomization).
\* seed orders the names of HashedNames; the modelled files never put two
\* names outside HashedNames in one set.
HashedNames == {"Item", "Order"}
ListOfSet(s, seed) ==
    LET InS(x) == x \in s
        rest == s \ Range(seed)
    IN  SelectSeq(seed, InS) \o
        (IF rest = {} THEN <<>> ELSE <<CHOOSE x \in rest : TRUE>>)

\* rglob('*.py') over the modelled project, in directory order.
ModelsPath == "app/models.py"
ViewsPath == "app/views.py"
UrlsPath == "proj/urls.py"
AppsPath == "app/apps.py"
TestsPath == "app/tests.py"
ShopModelsPath == "shop/models.py"
ProjectFiles ==
    <<ModelsPath, ViewsPath, AppsPath, TestsPath, UrlsPath, ShopModelsPath>>

\* Path.name and the directory of a project-relative path.
FileName(rel) ==
    LET i == CHOOSE k \in 1..Len(rel) :
                 /\ SubSeq(rel, k, k) = "/"
                 /\ \A m \in (k + 1)..Len(rel) : SubSeq(rel, m, m) # "/"
    IN  SubSeq(rel, i + 1, Len(rel))
DirName(rel) == SubSeq(rel, 1, Len(rel) - Len(FileName(rel)) - 1)
AbsPath(rel) == "/project/" \o rel

Call(name, arg) == [name |-> name, arg |-> arg]
Def(name, calls) == [name |-> name, calls |-> calls]
Field(name, type, quoted, target) ==
    [name |-> name, type |-> type, quoted |-> quoted, target |-> target]
Class(name, bases, fields, methods) ==
    [name |-> name, bases |-> bases, fields |-> fields, methods |-> methods]
PyFile(ok, classes, functions) ==
    [ok |-> ok, classes |-> classes, functions |-> functions]

\* The models.py texts of the modelled projects.
ItemClass(fields) == Class("Item", <<"models.Model">>, fields, <<>>)
OrderClass == Class("Order", <<"models.Model">>,
                    <<Field("total", "IntegerField", FALSE, "")>>, <<>>)
ModelsFileChoices ==
    {PyFile(TRUE, <<ItemClass(<<Field("owner", "ForeignKey", TRUE, "Ghost")>>),
                    OrderClass>>, <<>>),
     PyFile(TRUE, <<OrderClass,
                    ItemClass(<<Field("order", "ForeignKey", FALSE, "Order"),
                                Field("maker", "OneToOneField", TRUE, "Maker"),
                                Field("others", "ManyToManyField", TRUE, "Order")>>)>>,
            <<>>),
     PyFile(FALSE, <<ItemClass(<<>>), OrderClass>>, <<>>)}

\* The views.py texts of the modelled projects.
IndexBody(first, second) ==
    <<Call(first \o ".objects.all", ""), Call(second \o ".objects.filter", ""),
      Call("render", "request")>>
DetailBody ==
    <<Call("get_object_or_404", "Item"), Call("detail", "request"),
      Call("index", "request")>>
ViewsFileChoices ==
    {PyFile(TRUE, <<>>, <<Def("index", IndexBody("Order", "Item")),
                          Def("detail", DetailBody)>>),
     PyFile(TRUE, <<Class("Base", <<"Base">>, <<>>, <<>>),
                    Class("Helper", <<"Base">>, <<>>,
                          <<Def("run", <<Call("Item.objects.all", "")>>)>>)>>,
            <<Def("index", IndexBody("Item", "Order") \o
                           <<Call("ItemForm", ""), Call("ItemSerializer", ""),
                             Call("index", "request")>>)>>),
     PyFile(TRUE, <<Class("detail", <<"View">>, <<>>,
                          <<Def("get", <<Call("Order.objects.all", ""),
                                         Call("get_list_or_404", "Item")>>)>>),
                    Class("indexView", <<"View">>, <<>>, <<>>)>>,
            <<>>),
     PyFile(FALSE, <<>>, <<Def("index", IndexBody("Order", "Item"))>>)}

RouteDecls ==
    {[pattern |-> "a/b", view_ref |-> "index"],
     [pattern |-> "a/b", view_ref |-> "detail"],
     [pattern |-> "a.b", view_ref |-> "index"]}

\* A project: the path(...) lines of proj/urls.py, the Python files on disk
\* (models.py, views.py and urls.py always; apps.py, tests.py and a second
\* models.py when the project has them), the order in which rglob yields
\* the models files, the files whose bytes are not valid UTF-8 (reading them
\* raises UnicodeDecodeError; they do not parse either) and the
\* include_tests argument the analyzer is built with.
Projects ==
    {[urls |-> u, files |-> [f \in {ModelsPath, ViewsPath, UrlsPath} |->
                               CASE f = ModelsPath -> m
                                 [] f = ViewsPath -> v
                                 [] OTHER -> PyFile(TRUE, <<>>, <<>>)],
      models_order |-> <<ModelsPath>>,
      undecodable |-> {}, include_tests |-> FALSE] :
        u \in SeqsUpTo(RouteDecls, MaxRoutes),
        m \in ModelsFileChoices,
        v \in ViewsFileChoices}

\* Projects with an apps.py, a tests.py, an undecodable file, a dotted
\* handler reference or include_tests set; their decodable files all parse.
DottedRouteChoices ==
    {<<[pattern |-> "a/b", view_ref |-> "index"]>>,
     <<[pattern |-> "a/b", view_ref |-> "views.index"],
       [pattern |-> "a.b", view_ref |-> "app.views.Missing"]>>}
\* A plain class and a class-based view deriving from it.
MixinClasses ==
    <<Class("Mixin", <<>>, <<>>, <<>>),
      Class("ReportView", <<"Mixin", "View">>, <<>>, <<>>)>>
\* A second models.py, defining Item again with another field, and the
\* orders in which rglob('models.py') can yield the models files.
ShopModelsFile ==
    PyFile(TRUE, <<ItemClass(<<Field("sku", "CharField", FALSE, "")>>)>>, <<>>)
ModelsOrders ==
    {<<ModelsPath>>, <<ModelsPath, ShopModelsPath>>, <<ShopModelsPath, ModelsPath>>}
TestsFile == PyFile(TRUE, <<>>, <<Def("test_index", <<Call("index", "")>>)>>)
AppProjects ==
    {[urls |-> u,
      files |-> [f \in {ModelsPath, ViewsPath, UrlsPath} \cup extra \cup Range(mo) |->
                   LET content ==
                           CASE f = ModelsPath ->
                                    PyFile(TRUE, <<ItemClass(<<>>), OrderClass>>, <<>>)
                             [] f = ViewsPath ->
                                    PyFile(TRUE, MixinClasses,
                                           <<Def("index", IndexBody("Order", "Item")),
                                             Def("detail", DetailBody)>>)
                             [] f = TestsPath -> TestsFile
                             [] f = ShopModelsPath -> ShopModelsFile
                             [] OTHER -> PyFile(TRUE, <<>>, <<>>)
                   IN  [content EXCEPT !.ok = f \notin und]],
      models_order |-> mo,
      undecodable |-> und, include_tests |-> t] :
        u \in DottedRouteChoices,
        mo \in ModelsOrders,
        extra \in SUBSET {AppsPath, TestsPath},
        und \in {{}, {ViewsPath}, {UrlsPath}},
        t \in BOOLEAN}

\* The routing files as the URL mapper sees them: proj/urls.py alone.  When
\* read_text raises on it, _parse_urlconf catches the error having appended
\* nothing, as for a file without declarations.
UrlFs(p) ==
    [order    |-> <<UrlsPath>>,
     settings |-> {},
     views    |-> [d \in {} |-> <<>>],
     files    |-> [f \in {UrlsPath} |->
                     [dir |-> "proj", includes |-> <<>>,
                      paths |-> IF UrlsPath \in p.undecodable THEN <<>> ELSE p.urls,
                      registers |-> <<>>]]]

(***************************************************************************)
(* ast_parser.py: ASTParser.parse_file                                     *)
(***************************************************************************)
\* _is_django_model / _is_model_class: 'Model' in some base-class name
is_django_model(cls) == \E i \in 1..Len(cls.bases) : Contains(cls.bases[i], "Model")
\* _is_django_view: 'View' in some base-class name
is_django_view(cls) == \E i \in 1..Len(cls.bases) : Contains(cls.bases[i], "View")

\* _extract_classes: one dict per class; a method's dict has no 'calls' key
\* (_extract_class_methods), so methods are kept by name only.
extract_classes(content) ==
    [i \in 1..Len(content.classes) |->
        LET cls == content.classes[i] IN
        [name            |-> cls.name,
         base_classes    |-> cls.bases,
         methods         |-> [j \in 1..Len(cls.methods) |-> cls.methods[j].name],
         is_django_model |-> is_django_model(cls),
         is_django_view  |-> is_django_view(cls)]]

\* _extract_functions: the top-level functions, each with the names of the
\* calls of its body (_extract_function_calls).
extract_functions(content) ==
    [i \in 1..Len(content.functions) |->
        LET func == content.functions[i] IN
        [name  |-> func.name,
         calls |-> [j \in 1..Len(func.calls) |-> func.calls[j].name]]]

\* parse_file: None when ast.parse raises (the error is printed, not kept).
parse_file(content, rel_path) ==
    IF ~content.ok THEN None
    ELSE [file_path |-> rel_path,
          classes   |-> extract_classes(content),
          functions |-> extract_functions(content)]

\* Config.DEFAULT_CONFIG['filtering']['exclude_test_files']
exclude_test_files == TRUE

\* Config.should_exclude_file under the default configuration, for the
\* files of the model (none is an __init__.py, a migration or oversized,
\* none matches an exclude pattern): a name containing 'test' is excluded.
should_exclude_file(rel_path) ==
    exclude_test_files /\ Contains(FileName(rel_path), "test")

\* Config.is_project_file: every file of the model lies within the project.
is_project_file(rel_path) == ~should_exclude_file(rel_path)

RECURSIVE parse_all_project_files(_, _, _)
\* StaticAnalyzer._parse_all_project_files, from the i-th file on: files
\* the configuration rejects are skipped, then test files unless
\* include_tests; the result of parse_file is stored only when it is truthy.
parse_all_project_files(p, i, acc) ==
    IF i > Len(ProjectFiles) THEN acc
    ELSE LET rel_path == ProjectFiles[i] IN
         parse_all_project_files(p, i + 1,
             IF rel_path \notin DOMAIN p.files THEN acc
             ELSE IF ~is_project_file(rel_path) THEN acc
             ELSE IF ~p.include_tests /\ Contains(FileName(rel_path), "test") THEN acc
             ELSE IF p.files[rel_path].ok
                  THEN DictPut(acc, rel_path, parse_file(p.files[rel_path], rel_path))
                  ELSE acc)

\* StaticAnalyzer._find_django_apps: one dict per directory holding an
\* apps.py.  Every *.py file of such a directory is read with read_text
\* outside any try block, so an undecodable one raises out of analyze.
find_django_apps(p) ==
    IF AppsPath \notin DOMAIN p.files
    THEN [raised |-> FALSE, apps |-> <<>>]
    ELSE LET item == DirName(AppsPath)
             py_files == {f \in DOMAIN p.files : DirName(f) = item}
         IN  IF py_files \cap p.undecodable # {}
             THEN [raised |-> TRUE, apps |-> <<>>]
             ELSE [raised |-> FALSE,
                   apps |-> <<[name       |-> item,
                               path       |-> item,
                               has_models |-> ModelsPath \in py_files,
                               has_views  |-> ViewsPath \in py_files,
                               has_urls   |-> FALSE,
                               has_tests  |-> \E f \in py_files :
                                                  Contains(FileName(f), "test"),
                               file_count |-> Cardinality(py_files)]>>]

(***************************************************************************)
(* model_tracker.py: ModelTracker.find_models (the AST-based                *)
(* _parse_models_file, which overrides the regex-based one)                 *)
(***************************************************************************)
RelationshipTypes == {"ForeignKey", "OneToOneField", "ManyToManyField"}

\* A variant of the extraction that keeps no target.
extract_value_none(field) == None

\* _extract_value of the first positional argument: a string constant
\* gives its value, a name gives its identifier.
extract_value(field) == field.target

\* _extract_field_info: related_model is set for a relationship field with
\* a positional argument; field_info.get('related_model') is None otherwise.
extract_field_info(field) ==
    [name          |-> field.name,
     type          |-> field.type,
     related_model |-> IF field.type \in RelationshipTypes /\ field.target # ""
                       THEN extract_value(field)
                       ELSE None]

RECURSIVE relationships_of(_, _)
\* The relationships list of _extract_model_info, from the i-th field on.
relationships_of(fields, i) ==
    IF i > Len(fields) THEN <<>>
    ELSE LET field_info == extract_field_info(fields[i]) IN
         (IF field_info.type \in RelationshipTypes
          THEN <<[field         |-> field_info.name,
                  type          |-> field_info.type,
                  related_model |-> field_info.related_model]>>
          ELSE <<>>)
         \o relationships_of(fields, i + 1)

extract_model_info(cls, rel_path) ==
    [name          |-> cls.name,
     file          |-> rel_path,
     fields        |-> [i \in 1..Len(cls.fields) |-> cls.fields[i].name],
     relationships |-> relationships_of(cls.fields, 1)]

RECURSIVE parse_models_classes(_, _, _, _)
\* The loop of _parse_models_file over the classes: models[name] = info.
parse_models_classes(classes, i, rel_path, acc) ==
    IF i > Len(classes) THEN acc
    ELSE parse_models_classes(classes, i + 1, rel_path,
             IF is_django_model(classes[i])
             THEN DictPut(acc, classes[i].name,
                          extract_model_info(classes[i], rel_path))
             ELSE acc)

\* _parse_models_file: the empty dict when ast.parse raises.
parse_models_file(content, rel_path) ==
    IF ~content.ok THEN <<>>
    ELSE parse_models_classes(content.classes, 1, rel_path, <<>>)

RECURSIVE dict_update(_, _, _)
\* models.update(file_models), from the i-th item of file_models on.
dict_update(models_, file_models, i) ==
    IF i > Len(file_models) THEN models_
    ELSE dict_update(DictPut(models_, file_models[i].key, file_models[i].value),
                     file_models, i + 1)

RECURSIVE find_models_from(_, _, _)
\* The loop of find_models over the models.py files, from the i-th on, in
\* the order rglob yields them.
find_models_from(p, i, acc) ==
    IF i > Len(p.models_order) THEN acc
    ELSE LET models_file == p.models_order[i] IN
         find_models_from(p, i + 1,
             dict_update(acc, parse_models_file(p.files[models_file], models_file), 1))

\* find_models: models.update(file_models) for every models.py.
find_models(p) == find_models_from(p, 1, <<>>)

(***************************************************************************)
(* view_analyzer.py: ViewAnalyzer.analyze_views (the second definition,    *)
(* which overrides the first)                                               *)
(***************************************************************************)
\* All the function definitions of a file: top-level ones, then methods
\* (the order in which ast.walk meets them).
MethodsOf(classes) == Flatten([i \in 1..Len(classes) |-> classes[i].methods])

\* The calls ast.walk meets under a class: those of its methods.
CallsUnder(cls) == Flatten([i \in 1..Len(cls.methods) |-> cls.methods[i].calls])

\* _view_in_file: regular expressions built from the name search the text
\* for 'class <name>(', 'class <name>ViewSet(', 'class <name>View(' and
\* 'def <name>('.  A name holding '(' makes re.search raise; the except
\* clause answers False.
view_in_file(content, view_name) ==
    IF Contains(view_name, "(") THEN FALSE
    ELSE \/ \E i \in 1..Len(content.classes) :
               /\ Len(content.classes[i].bases) > 0
               /\ content.classes[i].name \in
                      {view_name, view_name \o "ViewSet", view_name \o "View"}
         \/ \E i \in 1..Len(content.functions) :
               content.functions[i].name = view_name
         \/ \E i \in 1..Len(MethodsOf(content.classes)) :
               MethodsOf(content.classes)[i].name = view_name

\* _find_view_file: the module path is cut off the name, then the first
\* *views.py holding the name is returned.
find_view_file(p, view_name) ==
    IF ViewsPath \notin p.undecodable
       /\ view_in_file(p.files[ViewsPath], LastDotted(view_name))
    THEN ViewsPath
    ELSE None

\* _find_view_definition: the first FunctionDef or ClassDef, in ast.walk
\* order, whose name equals the view name as given (module path included).
\* The result carries what _analyze_view_node reads: whether it is a class
\* and the calls under the node.
find_view_definition(content, view_name) ==
    LET funcs == {i \in 1..Len(content.functions) :
                      content.functions[i].name = view_name}
        clss  == {i \in 1..Len(content.classes) :
                      content.classes[i].name = view_name}
        meths == {i \in 1..Len(MethodsOf(content.classes)) :
                      MethodsOf(content.classes)[i].name = view_name}
        First(S) == CHOOSE i \in S : \A j \in S : i <= j
    IN  IF funcs # {}
        THEN [found |-> TRUE, is_class |-> FALSE,
              calls |-> content.functions[First(funcs)].calls]
        ELSE IF clss # {}
        THEN [found |-> TRUE, is_class |-> TRUE,
              calls |-> CallsUnder(content.classes[First(clss)])]
        ELSE IF meths # {}
        THEN [found |-> TRUE, is_class |-> FALSE,
              calls |-> MethodsOf(content.classes)[First(meths)].calls]
        ELSE [found |-> FALSE, is_class |-> FALSE, calls |-> <<>>]

\* The model named by an attribute chain <Name>.objects[...], "" if none.
QueriedModel(call_name) ==
    LET head == FirstDotted(call_name)
        rest == SubSeq(call_name, Len(head) + 1, Len(call_name))
    IN  IF rest = ".objects" \/ StartsWith(rest, ".objects.") THEN head ELSE ""

\* The set _detect_models_used collects, in the order of first encounter.
RECURSIVE models_encountered(_, _)
models_encountered(calls, i) ==
    IF i > Len(calls) THEN <<>>
    ELSE LET c == calls[i]
             m == IF QueriedModel(c.name) # "" THEN QueriedModel(c.name)
                  ELSE IF /\ \/ Contains(c.name, "get_object_or_404")
                             \/ Contains(c.name, "get_list_or_404")
                          /\ c.arg # ""
                       THEN c.arg
                       ELSE ""
             later == models_encountered(calls, i + 1)
             NotM(x) == x # m
         IN  IF m = "" THEN later ELSE <<m>> \o SelectSeq(later, NotM)

\* _detect_models_used: list(models) of the set collected.
detect_models_used(calls, seed) ==
    ListOfSet(Range(models_encountered(calls, 1)), seed)

\* _detect_forms_used: list(forms)
detect_forms_used(calls, seed) ==
    ListOfSet({calls[i].name : i \in {j \in 1..Len(calls) :
                   /\ Contains(calls[j].name, "Form")
                   /\ calls[j].name \notin {"Form", "forms.Form"}}}, seed)

\* _detect_serializers_used: list(serializers)
detect_serializers_used(calls, seed) ==
    ListOfSet({calls[i].name : i \in {j \in 1..Len(calls) :
                   Contains(calls[j].name, "Serializer")}}, seed)

\* A view's dict.  The dicts of unresolved views hold fewer keys (name,
\* found and file or error); their readers use .get with a default, which
\* the None and <<>> entries stand for.
ViewInfo(name, found, file, error, type, models_used, forms_used, serializers_used) ==
    [name |-> name, found |-> found, file |-> file, error |-> error,
     type |-> type, models_used |-> models_used, forms_used |-> forms_used,
     serializers_used |-> serializers_used]

\* _find_and_analyze_view
find_and_analyze_view(p, view_name, seed) ==
    LET view_file == find_view_file(p, view_name) IN
    IF view_file = None
    THEN ViewInfo(view_name, FALSE, None, None, None, <<>>, <<>>, <<>>)
    ELSE IF ~p.files[view_file].ok
    THEN ViewInfo(view_name, FALSE, None, "invalid syntax", None, <<>>, <<>>, <<>>)
    ELSE LET view_node == find_view_definition(p.files[view_file], view_name) IN
         IF ~view_node.found
         THEN ViewInfo(view_name, FALSE, AbsPath(view_file), None, None,
                       <<>>, <<>>, <<>>)
         ELSE ViewInfo(view_name, TRUE, view_file, None,
                       IF view_node.is_class THEN "class" ELSE "function",
                       detect_models_used(view_node.calls, seed),
                       detect_forms_used(view_node.calls, seed),
                       detect_serializers_used(view_node.calls, seed))

RECURSIVE analyze_views(_, _, _, _, _)
\* analyze_views, from the i-th route on: views[view_name] = view_info.
analyze_views(p, url_patterns_, i, seed, acc) ==
    IF i > Len(url_patterns_) THEN acc
    ELSE LET view_name == url_patterns_[i].view_name IN
         analyze_views(p, url_patterns_, i + 1, seed,
             IF view_name = "" THEN acc
             ELSE DictPut(acc, view_name,
                          find_and_analyze_view(p, view_name, seed)))

(***************************************************************************)
(* flow_builder.py: FlowBuilder                                            *)
(*                                                                         *)
(* data is the dict handed to the builder: url_patterns, views, models and *)
(* parsed_files.  A node is kept by its id, type and label; an edge by its *)
(* from, to and type.                                                      *)
(***************************************************************************)
\* _make_id
make_id(node_type, name) ==
    ReplaceChar(ReplaceChar(ReplaceChar(node_type \o "_" \o name, "/", "_"),
                            ".", "_"), " ", "_")

node_exists_by_id(ns, node_id) == \E i \in 1..Len(ns) : ns[i].id = node_id
node_exists(ns, node_type, name) == node_exists_by_id(ns, make_id(node_type, name))

Node(node_type, name) ==
    [id |-> make_id(node_type, name), type |-> node_type, label |-> name]
Edge(from, to, type) == [from |-> from, to |-> to, type |-> type]

RECURSIVE AppendIfNew(_, _, _, _)
\* A loop appending a node for each name, from the i-th on, unless
\* _node_exists(node_type, name).
AppendIfNew(ns, node_type, names, i) ==
    IF i > Len(names) THEN ns
    ELSE AppendIfNew(IF node_exists(ns, node_type, names[i]) THEN ns
                     ELSE Append(ns, Node(node_type, names[i])),
                     node_type, names, i + 1)

\* _add_url_nodes: one node per route, appended unconditionally.
add_url_nodes(data, ns) ==
    ns \o [i \in 1..Len(data.url_patterns) |->
              Node("url", data.url_patterns[i].pattern)]

\* _add_view_nodes: one node per key of views.
add_view_nodes(data, ns) ==
    ns \o [i \in 1..Len(data.views) |-> Node("view", data.views[i].key)]

\* _add_model_nodes: one node per key of models.
add_model_nodes(data, ns) ==
    ns \o [i \in 1..Len(data.models) |-> Node("model", data.models[i].key)]

RECURSIVE add_form_serializer_nodes(_, _, _)
\* _add_form_serializer_nodes, from the i-th view on.
add_form_serializer_nodes(data, i, ns) ==
    IF i > Len(data.views) THEN ns
    ELSE LET view_data == data.views[i].value
             n1 == AppendIfNew(ns, "form", view_data.forms_used, 1)
             n2 == AppendIfNew(n1, "serializer", view_data.serializers_used, 1)
         IN  add_form_serializer_nodes(data, i + 1, n2)

\* _add_function_nodes: the functions of every parsed file.
add_function_nodes(data, ns) ==
    AppendIfNew(ns, "function",
        Flatten([i \in 1..Len(data.parsed_files) |->
            LET funcs == data.parsed_files[i].value.functions IN
            [j \in 1..Len(funcs) |-> funcs[j].name]]), 1)

\* _add_class_nodes: the classes of every parsed file that are neither
\* Django models nor Django views.
add_class_nodes(data, ns) ==
    AppendIfNew(ns, "class",
        Flatten([i \in 1..Len(data.parsed_files) |->
            LET classes == data.parsed_files[i].value.classes IN
            Flatten([j \in 1..Len(classes) |->
                IF classes[j].is_django_model \/ classes[j].is_django_view
                THEN <<>> ELSE <<classes[j].name>>])]), 1)

\* _connect_urls_to_views
connect_urls_to_views(data, ns) ==
    Flatten([i \in 1..Len(data.url_patterns) |->
        LET url == data.url_patterns[i]
            view_id == make_id("view", url.view_name)
        IN  IF url.view_name # "" /\ node_exists_by_id(ns, view_id)
            THEN <<Edge(make_id("url", url.pattern), view_id, "routes_to")>>
            ELSE <<>>])

\* The edges of one view to the nodes of the given type it uses.
UsesEdges(ns, view_id, node_type, names, edge_type) ==
    Flatten([j \in 1..Len(names) |->
        IF node_exists_by_id(ns, make_id(node_type, names[j]))
        THEN <<Edge(view_id, make_id(node_type, names[j]), edge_type)>>
        ELSE <<>>])

\* _connect_views_to_models
connect_views_to_models(data, ns) ==
    Flatten([i \in 1..Len(data.views) |->
        UsesEdges(ns, make_id("view", data.views[i].key), "model",
                  data.views[i].value.models_used, "uses_model")])

\* _connect_views_to_forms
connect_views_to_forms(data, ns) ==
    Flatten([i \in 1..Len(data.views) |->
        LET view_id == make_id("view", data.views[i].key)
            view_data == data.views[i].value
        IN  UsesEdges(ns, view_id, "form", view_data.forms_used, "uses_form")
            \o UsesEdges(ns, view_id, "serializer", view_data.serializers_used,
                         "uses_serializer")])

\* A variant of the test below without the comparison of the two ids.
LinksAny(ns, from_id, to_id) == node_exists_by_id(ns, to_id)

\* The test of _connect_function_calls and _connect_class_hierarchy: the
\* target node exists and is not the source itself.
Links(ns, from_id, to_id) == node_exists_by_id(ns, to_id) /\ from_id # to_id

\* _connect_function_calls
connect_function_calls(data, ns) ==
    Flatten([i \in 1..Len(data.parsed_files) |->
        LET funcs == data.parsed_files[i].value.functions IN
        Flatten([j \in 1..Len(funcs) |->
            LET func_id == make_id("function", funcs[j].name) IN
            Flatten([k \in 1..Len(funcs[j].calls) |->
                LET called_id == make_id("function", LastDotted(funcs[j].calls[k]))
                IN  IF Links(ns, func_id, called_id)
                    THEN <<Edge(func_id, called_id, "calls")>>
                    ELSE <<>>])])])

\* _connect_class_hierarchy
connect_class_hierarchy(data, ns) ==
    Flatten([i \in 1..Len(data.parsed_files) |->
        LET classes == data.parsed_files[i].value.classes IN
        Flatten([j \in 1..Len(classes) |->
            LET cls_id == make_id("class", classes[j].name) IN
            Flatten([k \in 1..Len(classes[j].base_classes) |->
                LET base_id == make_id("class", LastDotted(classes[j].base_classes[k]))
                IN  IF Links(ns, cls_id, base_id)
                    THEN <<Edge(cls_id, base_id, "inherits")>>
                    ELSE <<>>])])])

\* method.get('calls', []) of a parsed method: parse_file stores no 'calls'
\* key for methods.
MethodCalls(method) == <<>>

\* _connect_method_calls
connect_method_calls(data, ns) ==
    Flatten([i \in 1..Len(data.parsed_files) |->
        LET classes == data.parsed_files[i].value.classes IN
        Flatten([j \in 1..Len(classes) |->
            Flatten([k \in 1..Len(classes[j].methods) |->
                LET calls == MethodCalls(classes[j].methods[k]) IN
                Flatten([c \in 1..Len(calls) |->
                    IF /\ Contains(calls[c], ".objects.")
                       /\ node_exists_by_id(ns, make_id("model", FirstDotted(calls[c])))
                    THEN <<Edge(make_id("class", classes[j].name),
                                make_id("model", FirstDotted(calls[c])), "queries")>>
                    ELSE <<>>])])])])

Step(type, name) == [type |-> type, name |-> name]

\* _trace_sequence_from_url: <<>> stands for None, <<sequence>> for a
\* sequence.  `if view_data:` holds for every dict with a key.
trace_sequence_from_url(data, url) ==
    LET view_name == url.view_name
        view_steps ==
            IF DictHas(data.views, view_name)
            THEN LET view_data == DictGet(data.views, view_name) IN
                 <<Step("view", view_name)>>
                 \o [i \in 1..Len(view_data.models_used) |->
                        Step("model", view_data.models_used[i])]
                 \o [i \in 1..Len(view_data.forms_used) |->
                        Step("form", view_data.forms_used[i])]
            ELSE <<>>
        steps == <<Step("url", url.pattern)>> \o view_steps
    IN  IF view_name = "" THEN <<>>
        ELSE IF Len(steps) > 1
             THEN <<[url |-> url.pattern, steps |-> steps]>>
             ELSE <<>>

\* _build_request_sequences: appends to self.flow_sequences.
build_request_sequences(data, seqs) ==
    seqs \o Flatten([i \in 1..Len(data.url_patterns) |->
                        trace_sequence_from_url(data, data.url_patterns[i])])

\* build_complete_flow on a builder whose flow_sequences holds seqs: nodes
\* and edges are reset, flow_sequences is not.
build_complete_flow(data, seqs) ==
    LET n1 == add_url_nodes(data, <<>>)
        n2 == add_view_nodes(data, n1)
        n3 == add_model_nodes(data, n2)
        n4 == add_form_serializer_nodes(data, 1, n3)
        n5 == add_function_nodes(data, n4)
        ns == add_class_nodes(data, n5)
    IN  [nodes     |-> ns,
         edges     |-> connect_urls_to_views(data, ns)
                       \o connect_views_to_models(data, ns)
                       \o connect_views_to_forms(data, ns)
                       \o connect_function_calls(data, ns)
                       \o connect_class_hierarchy(data, ns)
                       \o connect_method_calls(data, ns),
         sequences |-> build_request_sequences(data, seqs)]

(***************************************************************************)
(* static_analyzer.py: StaticAnalyzer.analyze, one action per stage.       *)
(* The stages that read nothing the modelled files hold (build_module_map, *)
(* EnvDetector.detect, the complexity and stats counters) are left out.    *)
(***************************************************************************)
Seeds == Permutations_(HashedNames)

AnalyzeInit ==
    /\ project \in Projects \cup AppProjects
    /\ hash_seed \in Seeds
    /\ pc = "start"
    /\ apps = <<>>
    /\ runs = 1
    /\ parsed_files = <<>>
    /\ routes = <<>>
    /\ models = <<>>
    /\ views = <<>>
    /\ nodes = <<>>
    /\ edges = <<>>
    /\ flow_sequences = <<>>
    /\ previous = None

\* apps = self._find_django_apps(): the exception it raises is caught
\* nowhere, neither in analyze nor in cli/main.py, and ends the command.
FindDjangoApps ==
    /\ pc = "start"
    /\ LET found == find_django_apps(project) IN
         /\ pc' = IF found.raised THEN "crashed" ELSE "apps"
         /\ apps' = found.apps
    /\ UNCHANGED <<project, hash_seed, runs, parsed_files, routes, models, views,
                   nodes, edges, flow_sequences, previous>>
    /\ UNCHANGED <<depVars, urlVars, impVars, logVars>>

\* self._parse_all_project_files()
ParseAllProjectFiles ==
    /\ pc = "apps"
    /\ pc' = "parsed"
    /\ parsed_files' = parse_all_project_files(project, 1, parsed_files)
    /\ UNCHANGED <<project, apps, hash_seed, runs, routes, models, views, nodes, edges,
                   flow_sequences, previous>>
    /\ UNCHANGED <<depVars, urlVars, impVars, logVars>>

\* url_patterns = self.url_mapper.extract_urls()
ExtractUrlPatterns ==
    /\ pc = "parsed"
    /\ pc' = "urls"
    /\ url_patterns' = CollectUrls(UrlFs(project), url_patterns)
    /\ routes' = extract_urls(UrlFs(project), url_patterns)
    /\ UNCHANGED <<project, apps, hash_seed, runs, parsed_files, models, views, nodes,
                   edges, flow_sequences, previous>>
    /\ UNCHANGED <<depVars, upc, ucalls, url_project, extracted, impVars, logVars>>

\* models = self.model_tracker.find_models()
FindModels ==
    /\ pc = "urls"
    /\ pc' = "models"
    /\ models' = find_models(project)
    /\ UNCHANGED <<project, apps, hash_seed, runs, parsed_files, routes, views, nodes,
                   edges, flow_sequences, previous>>
    /\ UNCHANGED <<depVars, urlVars, impVars, logVars>>

\* views = self.view_analyzer.analyze_views(url_patterns)
AnalyzeViews ==
    /\ pc = "models"
    /\ pc' = "views"
    /\ views' = analyze_views(project, routes, 1, hash_seed, <<>>)
    /\ UNCHANGED <<project, apps, hash_seed, runs, parsed_files, routes, models, nodes,
                   edges, flow_sequences, previous>>
    /\ UNCHANGED <<depVars, urlVars, impVars, logVars>>

\* dependency_graph = self._build_dependency_graph(): the modelled files
\* hold no import statement, so every depends_on list is empty.
BuildDependencyGraph ==
    /\ pc = "views"
    /\ pc' = "deps"
    /\ LET g == [keys       |-> DictKeys(parsed_files),
                 depends_on |-> [f \in Range(DictKeys(parsed_files)) |-> <<>>]]
       IN  /\ dependency_graph' = g
           /\ circular' = find_circular_dependencies(g)
    /\ UNCHANGED <<project, apps, hash_seed, runs, parsed_files, routes, models, views,
                   nodes, edges, flow_sequences, previous>>
    /\ UNCHANGED <<dpc, tree, urlVars, impVars, logVars>>

\* flow_data = self._build_comprehensive_flow(url_patterns, views, models):
\* a new FlowBuilder, then build_complete_flow().
BuildComprehensiveFlow ==
    /\ pc = "deps"
    /\ pc' = "done"
    /\ LET complete_flow ==
               build_complete_flow([url_patterns |-> routes, views |-> views,
                                    models |-> models,
                                    parsed_files |-> parsed_files], <<>>)
       IN  /\ nodes' = complete_flow.nodes
           /\ edges' = complete_flow.edges
           /\ flow_sequences' = complete_flow.sequences
    /\ UNCHANGED <<project, apps, hash_seed, runs, parsed_files, routes, models, views,
                   previous>>
    /\ UNCHANGED <<depVars, urlVars, impVars, logVars>>

\* The dict analyze() returns.
Result ==
    [apps             |-> apps,
     url_patterns     |-> routes,
     models           |-> models,
     views            |-> views,
     parsed_files     |-> parsed_files,
     dependency_graph |-> [graph |-> dependency_graph, circular |-> circular],
     flow_graph       |-> [nodes |-> nodes, edges |-> edges],
     sequences        |-> flow_sequences]

\* build_complete_flow() is called a second time on the FlowBuilder of the
\* run: self.nodes and self.edges are reset, self.flow_sequences is not.
\* previous keeps what the first call returned.
BuildCompleteFlowAgain ==
    /\ pc = "done"
    /\ pc' = "rebuilt"
    /\ previous' = [result |-> Result, hash_seed |-> hash_seed]
    /\ LET complete_flow ==
               build_complete_flow([url_patterns |-> routes, views |-> views,
                                    models |-> models,
                                    parsed_files |-> parsed_files], flow_sequences)
       IN  /\ nodes' = complete_flow.nodes
           /\ edges' = complete_flow.edges
           /\ flow_sequences' = complete_flow.sequences
    /\ UNCHANGED <<project, apps, hash_seed, runs, parsed_files, routes, models, views>>
    /\ UNCHANGED <<depVars, urlVars, impVars, logVars>>

\* analyze() is called again on the same StaticAnalyzer: the analyzer keeps
\* self.parsed_files and its URLMapper keeps self.url_patterns.
AnalyzeAgain ==
    /\ pc = "done"
    /\ runs < MaxRuns
    /\ pc' = "start"
    /\ runs' = runs + 1
    /\ previous' = [result |-> Result, hash_seed |-> hash_seed]
    /\ routes' = <<>>
    /\ models' = <<>>
    /\ views' = <<>>
    /\ nodes' = <<>>
    /\ edges' = <<>>
    /\ flow_sequences' = <<>>
    /\ apps' = <<>>
    /\ UNCHANGED <<project, hash_seed, parsed_files>>
    /\ UNCHANGED <<depVars, urlVars, impVars, logVars>>

\* The command is run again (cli/main.py builds one StaticAnalyzer per
\* invocation): a new interpreter with its own hash seed and new analyzers.
AnalyzeInNewProcess ==
    /\ pc = "done"
    /\ runs < MaxRuns
    /\ pc' = "start"
    /\ runs' = runs + 1
    /\ previous' = [result |-> Result, hash_seed |-> hash_seed]
    /\ hash_seed' \in Seeds
    /\ parsed_files' = <<>>
    /\ url_patterns' = <<>>
    /\ routes' = <<>>
    /\ models' = <<>>
    /\ views' = <<>>
    /\ nodes' = <<>>
    /\ edges' = <<>>
    /\ flow_sequences' = <<>>
    /\ apps' = <<>>
    /\ UNCHANGED project
    /\ UNCHANGED <<depVars, upc, ucalls, url_project, extracted, impVars, logVars>>

(***************************************************************************)
(* ast_parser.py: _extract_imports; import_resolver.py: ImportResolver;    *)
(* static_analyzer.py: _build_dependency_graph                             *)
(*                                                                         *)
(* A path is the sequence of its parts below the project root              *)
(* (pkg/sub/x.py is <<"pkg", "sub", "x.py">>); <<>> stands for no path.     *)
(***************************************************************************)
MaxImports == 2

NoPath == <<>>
Parent(path) == SubSeq(path, 1, Len(path) - 1)

\* str(path) of a project file
RECURSIVE PathStr(_)
PathStr(path) ==
    IF path = <<>> THEN "/project" ELSE PathStr(Parent(path)) \o "/" \o path[Len(path)]

\* module.split('.') and '.'.join(parts)
RECURSIVE SplitDots(_)
SplitDots(s) ==
    IF ~Contains(s, ".") THEN <<s>>
    ELSE <<FirstDotted(s)>> \o SplitDots(SubSeq(s, Len(FirstDotted(s)) + 2, Len(s)))
RECURSIVE JoinDots(_)
JoinDots(parts) ==
    IF parts = <<>> THEN ""
    ELSE IF Len(parts) = 1 THEN parts[1]
    ELSE parts[1] \o "." \o JoinDots(Tail(parts))

\* project_path / a / b: joining an empty part leaves the path as it is.
JoinPath(parts) == SelectSeq(parts, LAMBDA x : x # "")

\* An import statement of the source text: `import module` or
\* `from <level dots><module> import name`.
Stmt(type, level, module, name) ==
    [type |-> type, level |-> level, module |-> module, name |-> name]

\* ASTParser._extract_imports: one dict per imported name, holding
\* node.module (the text after the dots, '' when there is none) and the
\* name; node.level is not read.
extract_imports(stmts) ==
    [i \in 1..Len(stmts) |->
        [type |-> stmts[i].type, module |-> stmts[i].module, name |-> stmts[i].name]]

\* ImportResolver._is_project_file
ResolverExcludePatterns ==
    {"site-packages", "venv", "env", ".venv", "virtualenv", "migrations",
     "__pycache__", ".git"}
resolver_is_project_file(path) ==
    \A pattern \in ResolverExcludePatterns : ~Contains(PathStr(path), pattern)

\* _file_to_module
file_to_module(path) ==
    LET name == path[Len(path)] IN
    IF name = "__init__.py" THEN JoinDots(Parent(path))
    ELSE JoinDots(Append(Parent(path), SubSeq(name, 1, Len(name) - 3)))

\* build_module_map: module name -> file.  No two files of the modelled
\* projects have the same module name, so the order of rglob is immaterial.
build_module_map(disk) ==
    LET mods == {file_to_module(f) : f \in {g \in disk : resolver_is_project_file(g)}}
    IN  [n \in mods |-> CHOOSE f \in disk : file_to_module(f) = n]

\* _find_module_path
find_module_path(mmap, disk, module_name) ==
    IF module_name \in DOMAIN mmap THEN mmap[module_name]
    ELSE LET parts == SplitDots(module_name)
             package_path == JoinPath(Append(parts, "__init__.py"))
             module_path == JoinPath(Append(Parent(parts), parts[Len(parts)] \o ".py"))
         IN  IF package_path \in disk /\ resolver_is_project_file(package_path)
             THEN package_path
             ELSE IF module_path \in disk /\ resolver_is_project_file(module_path)
             THEN module_path
             ELSE NoPath

\* The number of leading dots of a module string, and the rest of it.
RECURSIVE LeadingDots(_)
LeadingDots(module) ==
    IF module # "" /\ SubSeq(module, 1, 1) = "."
    THEN 1 + LeadingDots(SubSeq(module, 2, Len(module)))
    ELSE 0

\* The dict _resolve_import returns.
Resolution(source, module, file_path, import_info, relative, unresolved) ==
    [source |-> source, module |-> module, file_path |-> file_path,
     import_info |-> import_info, relative |-> relative, unresolved |-> unresolved]

\* _resolve_relative_import: level-1 directories up from the file's
\* directory, then down the module's parts; the package's __init__.py is
\* tried before the module file.  A target above the project root is not a
\* project file.
resolve_relative_import(disk, current_file, import_info) ==
    LET current_dir == Parent(current_file)
        level == LeadingDots(import_info.module)
        module == SubSeq(import_info.module, level + 1, Len(import_info.module))
        up == IF level > 1 THEN level - 1 ELSE 0
        inside == up <= Len(current_dir)
        base == SubSeq(current_dir, 1, Len(current_dir) - up)
        target_dir == IF module # "" THEN base \o SplitDots(module) ELSE base
        possible_paths ==
            <<Append(target_dir, "__init__.py")>> \o
            (IF target_dir = <<>> THEN <<>>
             ELSE <<Append(Parent(target_dir), target_dir[Len(target_dir)] \o ".py")>>)
        Usable(path) == path \in disk /\ resolver_is_project_file(path)
        hits == IF inside THEN SelectSeq(possible_paths, Usable) ELSE <<>>
        shown == IF module # "" THEN module ELSE "."
    IN  IF hits # <<>>
        THEN Resolution("internal", shown, hits[1], import_info, TRUE, FALSE)
        ELSE Resolution("internal", shown, NoPath, import_info, TRUE, TRUE)

\* _resolve_import
resolve_import(mmap, disk, current_file, import_info) ==
    LET module == import_info.module IN
    IF module # "" /\ StartsWith(module, ".")
    THEN resolve_relative_import(disk, current_file, import_info)
    ELSE LET resolved_path == find_module_path(mmap, disk, module) IN
         IF resolved_path # NoPath
         THEN Resolution("internal", module, resolved_path, import_info, FALSE, FALSE)
         ELSE Resolution("external", module, NoPath, import_info, FALSE, FALSE)

\* resolve_imports
resolve_imports(mmap, disk, file_path, imports) ==
    LET resolutions == [i \in 1..Len(imports) |->
                           resolve_import(mmap, disk, file_path, imports[i])]
        Internal(r) == r.source = "internal"
        External(r) == r.source # "internal"
        HasFile(r) == r.file_path # NoPath
        internal == SelectSeq(resolutions, Internal)
        with_file == SelectSeq(internal, HasFile)
    IN  [internal     |-> internal,
         external     |-> SelectSeq(resolutions, External),
         dependencies |-> [i \in 1..Len(with_file) |-> with_file[i].file_path]]

\* list(dependencies): every element kept, in the order of the imports
PathList(dependencies, order) == dependencies

\* list(set(dependencies)): one of each, in the set's iteration order
PathListOfSet(dependencies, order) ==
    SelectSeq(order, LAMBDA path : path \in Range(dependencies))

\* _is_external_package, _extract_package_name and _get_external_packages;
\* the list is list(set), kept here as the set.
KnownPackages ==
    {"django", "rest_framework", "celery", "redis", "requests", "numpy",
     "pandas", "pytest", "selenium", "bs4", "scrapy", "flask"}
is_external_package(mmap, disk, module) ==
    \/ SplitDots(module)[1] \in KnownPackages
    \/ find_module_path(mmap, disk, module) = NoPath
get_external_packages(mmap, disk, imports) ==
    {SplitDots(imports[i].module)[1] :
        i \in {j \in 1..Len(imports) :
                  /\ imports[j].module # ""
                  /\ is_external_package(mmap, disk, imports[j].module)}}

\* build_dependency_graph: depends_on per file, then the reverse lists: for
\* each file, for each of its dependencies that is a key, the file is
\* appended to the dependency's dependents.
build_dependency_graph(mmap, disk, files, order) ==
    LET keys == DictKeys(files)
        DepsOf(file_path) ==
            LET imports == DictGet(files, file_path).imports
                resolved == [i \in 1..Len(imports) |->
                                resolve_import(mmap, disk, file_path, imports[i])]
                Counts(r) == r.source = "internal" /\ r.file_path # NoPath
                kept == SelectSeq(resolved, Counts)
            IN  [i \in 1..Len(kept) |-> kept[i].file_path]
        depends_on == [f \in Range(keys) |-> PathListOfSet(DepsOf(f), order)]
        Appended(dependency, file_path) ==
            LET hits == SelectSeq(depends_on[file_path], LAMBDA d : d = dependency)
            IN  [j \in 1..Len(hits) |-> file_path]
    IN  [keys       |-> keys,
         depends_on |-> depends_on,
         external_packages |->
             [f \in Range(keys) |->
                 get_external_packages(mmap, disk, DictGet(files, f).imports)],
         dependents |->
             [g \in Range(keys) |->
                 Flatten([i \in 1..Len(keys) |-> Appended(g, keys[i])])]]

\* The files on disk: a package pkg with a module m, views and a
\* sub-directory; a top-level m.py or celery.py in some projects.  pkg/__init__.py is on
\* disk but is not parsed (the configuration excludes __init__.py files).
PkgInit == <<"pkg", "__init__.py">>
PkgM == <<"pkg", "m.py">>
PkgViews == <<"pkg", "views.py">>
SubX == <<"pkg", "sub", "x.py">>
TopM == <<"m.py">>
TopCelery == <<"celery.py">>
ParsedOrder == <<TopCelery, TopM, PkgM, PkgViews, SubX>>

ImportStmts ==
    {Stmt("from_import", 1, "m", "x"),          \* from .m import x
     Stmt("from_import", 2, "m", "y"),          \* from ..m import y
     Stmt("from_import", 1, "", "views"),       \* from . import views
     Stmt("from_import", 0, "pkg.views", "v"),  \* from pkg.views import v
     Stmt("import", 0, "pkg", ""),              \* import pkg
     Stmt("import", 0, "django.db", ""),        \* import django.db
     Stmt("import", 0, "celery", "")}           \* import celery

ImportProjects ==
    {[disk    |-> {PkgInit, PkgM, PkgViews, SubX} \cup top,
      imports |-> [f \in {PkgM, PkgViews, SubX} \cup top |->
                      CASE f = PkgViews -> v
                        [] f = SubX -> s
                        [] f = PkgM -> k
                        [] OTHER -> <<>>]] :
        top \in {{}, {TopM}, {TopCelery}},
        v \in SeqsUpTo(ImportStmts, MaxImports),
        s \in {<<>>, <<Stmt("from_import", 2, "m", "y")>>,
               <<Stmt("import", 0, "pkg", "")>>},
        k \in {<<>>, <<Stmt("from_import", 0, "pkg.views", "v")>>}}

ImpInit ==
    /\ ipc = "start"
    /\ import_project \in ImportProjects
    /\ all_files = <<>>
    /\ module_map = <<>>
    /\ graph = None

\* The parse stage, as far as imports go: parsed_files[rel_path]['imports']
ExtractImports ==
    /\ ipc = "start"
    /\ ipc' = "parsed"
    /\ all_files' =
           LET Parsed(f) == f \in DOMAIN import_project.imports
               keys == SelectSeq(ParsedOrder, Parsed)
           IN  [i \in 1..Len(keys) |->
                   [key |-> keys[i],
                    value |-> [imports |-> extract_imports(import_project.imports[keys[i]]),
                               resolved_imports |-> None]]]
    /\ UNCHANGED <<import_project, module_map, graph>>
    /\ UNCHANGED <<depVars, urlVars, flowVars, logVars>>

\* self.import_resolver.build_module_map()
BuildModuleMap ==
    /\ ipc = "parsed"
    /\ ipc' = "mapped"
    /\ module_map' = build_module_map(import_project.disk)
    /\ UNCHANGED <<import_project, all_files, graph>>
    /\ UNCHANGED <<depVars, urlVars, flowVars, logVars>>

\* The file paths the imports of the parsed files resolve to.
ResolvedPaths ==
    UNION {Range(resolve_imports(module_map, import_project.disk,
                                 all_files[i].key, all_files[i].value.imports).dependencies) :
              i \in 1..Len(all_files)}

\* StaticAnalyzer._build_dependency_graph: resolved_imports is stored per
\* file, the graph is built and its cycles are stored under
\* 'circular_dependencies'.  The iteration order of the sets behind
\* list(set(...)) is any order of the paths.
ResolveAndBuildGraph ==
    /\ ipc = "mapped"
    /\ ipc' = "done"
    /\ all_files' =
           [i \in 1..Len(all_files) |->
               [key |-> all_files[i].key,
                value |-> [imports |-> all_files[i].value.imports,
                           resolved_imports |->
                               resolve_imports(module_map, import_project.disk,
                                               all_files[i].key,
                                               all_files[i].value.imports)]]]
    /\ \E order \in Permutations_(ResolvedPaths) :
           LET dependency_graph_ ==
                   build_dependency_graph(module_map, import_project.disk,
                                          all_files, order)
           IN  graph' = [keys |-> dependency_graph_.keys,
                         depends_on |-> dependency_graph_.depends_on,
                         external_packages |-> dependency_graph_.external_packages,
                         dependents |-> dependency_graph_.dependents,
                         circular_dependencies |->
                             find_circular_dependencies(dependency_graph_)]
    /\ UNCHANGED <<import_project, module_map>>
    /\ UNCHANGED <<depVars, urlVars, flowVars, logVars>>

(***************************************************************************)
(* middleware/request_logger.py: RequestLoggerMiddleware.  Requests are     *)
(* served one after the other; a request is modelled by its path and by     *)
(* whether its handler raises.                                              *)
(***************************************************************************)
MaxRequests == 3

\* The default of EXCLUDE_PATHS, and the paths of the modelled requests.
ExcludePaths == <<"/static/", "/media/">>
RequestPaths == {"/a", "/b", "/static/x"}

\* _should_exclude
should_exclude(path) ==
    \E i \in 1..Len(ExcludePaths) : Contains(path, ExcludePaths[i])

\* _capture_request_info: resolve("/a") gives a view, resolve("/b") raises
\* and leaves view_name None.
capture_request_info(path) ==
    [path      |-> path,
     view_name |-> IF path = "/a" THEN "app.views.a" ELSE None]

\* request_data as __call__ logs it, after a response or an exception.
RequestData(path, raised) ==
    [path      |-> path,
     view_name |-> capture_request_info(path).view_name,
     success   |-> ~raised]

NoRuntimeFile ==
    [exists |-> FALSE, requests |-> <<>>, url_patterns |-> <<>>, views |-> <<>>,
     total_requests |-> 0]

\* _update_runtime_data: the new contents of runtime_data.json.  A dict made
\* here holds sets, a dict loaded from the file holds lists: on a loaded
\* dict .add raises AttributeError, which is caught, and nothing is written.
update_runtime_data(file, request_data) ==
    IF ~file.exists
    THEN [exists         |-> TRUE,
          requests       |-> <<request_data>>,
          url_patterns   |-> IF request_data.path # ""
                             THEN <<request_data.path>> ELSE <<>>,
          views          |-> IF request_data.view_name # None
                             THEN <<request_data.view_name>> ELSE <<>>,
          total_requests |-> 1]
    ELSE IF request_data.path # "" \/ request_data.view_name # None
         THEN file
         ELSE [file EXCEPT !.requests = Append(@, request_data),
                           !.total_requests = @ + 1]

LogInit ==
    /\ lpc = "serving"
    /\ enabled \in BOOLEAN
    /\ lcalls = 0
    /\ served = 0
    /\ log_file = <<>>
    /\ runtime_file = NoRuntimeFile

LogIdle ==
    /\ lpc = "idle"
    /\ enabled = FALSE
    /\ lcalls = 0
    /\ served = 0
    /\ log_file = <<>>
    /\ runtime_file = NoRuntimeFile

\* __call__ when logging is disabled or the path is excluded: the request
\* goes to get_response and nothing is written.
PassThrough ==
    /\ lpc = "serving"
    /\ lcalls < MaxRequests
    /\ \E path \in RequestPaths : ~enabled \/ should_exclude(path)
    /\ lcalls' = lcalls + 1
    /\ UNCHANGED <<lpc, enabled, served, log_file, runtime_file>>
    /\ UNCHANGED <<depVars, urlVars, flowVars, impVars>>

\* __call__ on a logged path: whether get_response returns or raises, the
\* finally clause runs _log_request, which appends a line to requests.jsonl
\* and updates runtime_data.json.
LogRequest ==
    /\ lpc = "serving"
    /\ lcalls < MaxRequests
    /\ enabled
    /\ \E path \in RequestPaths, raised \in BOOLEAN :
           /\ ~should_exclude(path)
           /\ log_file' = Append(log_file, RequestData(path, raised))
           /\ runtime_file' = update_runtime_data(runtime_file,
                                                  RequestData(path, raised))
    /\ lcalls' = lcalls + 1
    /\ served' = served + 1
    /\ UNCHANGED <<lpc, enabled>>
    /\ UNCHANGED <<depVars, urlVars, flowVars, impVars>>

(***************************************************************************)
(* Specification of the dependency-graph operations                        *)
(***************************************************************************)
InitDeps == DepInit /\ UrlIdle /\ FlowIdle /\ ImpIdle /\ LogIdle
NextDeps == FindCircular \/ GetDependencyTree
SpecDeps == InitDeps /\ [][NextDeps]_vars

\* The graph is exactly a three-file import chain x -> y -> z -> x.
IsThreeChain(g) ==
    \E p \in Permutations_(Files) :
        /\ Len(p) = 3
        /\ g.depends_on[p[1]] = <<p[2]>>
        /\ g.depends_on[p[2]] = <<p[3]>>
        /\ g.depends_on[p[3]] = <<p[1]>>

\* C1: for a dependency graph that is exactly a three-file import chain,
\* find_circular_dependencies returns exactly one cycle and that cycle
\* contains all three files, whichever file the iteration starts from.
C1_ThreeChainOneCycle ==
    (dpc = "done" /\ IsThreeChain(dependency_graph)) =>
        /\ Len(circular) = 1
        /\ Range(circular[1]) = Files

(***************************************************************************)
(* Specification of route extraction                                       *)
(***************************************************************************)
InitUrls == DepIdle /\ UrlInit /\ FlowIdle /\ ImpIdle /\ LogIdle
NextUrls == ExtractUrls
SpecUrls == InitUrls /\ [][NextUrls]_vars

\* The (pattern, handler-reference) pair of a route.
RoutePair(r) == <<r.pattern, r.view_name>>

\* The position in c of the first route with the pair of r.
FirstWithPair(c, r) ==
    CHOOSE i \in 1..Len(c) :
        /\ RoutePair(c[i]) = RoutePair(r)
        /\ \A m \in 1..(i - 1) : RoutePair(c[m]) # RoutePair(r)

\* The class named T, as (directory, position) in the project's view files.
DefinitionsOf(fs, T) ==
    {x \in (DOMAIN fs.views) \X (1..3) :
        x[2] <= Len(fs.views[x[1]]) /\ fs.views[x[1]][x[2]].name = T}

RoutesUnder(rs, prefix) ==
    {j \in 1..Len(rs) : StartsWith(rs[j].pattern, prefix)}

\* C2: a router.register at prefix P for a target T with k custom action
\* methods yields exactly 2+k routes: P/ (list, create), P/{id}/ (retrieve,
\* update, partial update, delete) and one P/{id}/<action>/ per action of T.
C2_RegistrationRoutes ==
    (upc = "done" /\ ucalls = 1) =>
        \A f \in DOMAIN url_project.files :
            \A n \in 1..Len(url_project.files[f].registers) :
                LET reg  == url_project.files[f].registers[n]
                    T    == LastDotted(reg.target)
                    defs == DefinitionsOf(url_project, T)
                    P    == reg.prefix \o "/"
                    mine == RoutesUnder(extracted, P)
                IN  Cardinality(defs) = 1 =>
                    LET def  == CHOOSE x \in defs : TRUE
                        acts == url_project.views[def[1]][def[2]].actions
                    IN  /\ Cardinality(mine) = 2 + Len(acts)
                        /\ \E j \in mine :
                               /\ extracted[j].pattern = P
                               /\ extracted[j].methods = <<"GET", "POST">>
                        /\ \E j \in mine :
                               /\ extracted[j].pattern = P \o "{id}/"
                               /\ extracted[j].methods =
                                      <<"GET", "PUT", "PATCH", "DELETE">>
                        /\ \A a \in Range(acts) : \E j \in mine :
                               extracted[j].pattern = P \o "{id}/" \o a \o "/"

\* C3: extract_urls returns exactly one route per distinct (pattern,
\* handler-reference) pair among the collected declarations, the first one
\* collected, in first-occurrence order; declarations whose pairs differ are
\* never collapsed.
C3_DedupByPair ==
    upc = "done" =>
        /\ \A i \in 1..Len(url_patterns) :
               Cardinality({j \in 1..Len(extracted) :
                   RoutePair(extracted[j]) = RoutePair(url_patterns[i])}) = 1
        /\ \A j \in 1..Len(extracted) :
               /\ \E i \in 1..Len(url_patterns) :
                      RoutePair(url_patterns[i]) = RoutePair(extracted[j])
               /\ extracted[j] = url_patterns[FirstWithPair(url_patterns, extracted[j])]
        /\ \A j1, j2 \in 1..Len(extracted) :
               j1 < j2 => FirstWithPair(url_patterns, extracted[j1])
                          < FirstWithPair(url_patterns, extracted[j2])

C1_Witness ==
    /\ dpc = "done"
    /\ IsThreeChain(dependency_graph)
    /\ dependency_graph.keys[1] = "b.py"
    /\ Len(circular) = 1

(***************************************************************************)
(* Specification of StaticAnalyzer.analyze                                 *)
(***************************************************************************)
InitAnalyze == DepIdle /\ UrlIdle /\ AnalyzeInit /\ ImpIdle /\ LogIdle
NextAnalyze ==
    \/ FindDjangoApps
    \/ ParseAllProjectFiles
    \/ ExtractUrlPatterns
    \/ FindModels
    \/ AnalyzeViews
    \/ BuildDependencyGraph
    \/ BuildComprehensiveFlow
    \/ BuildCompleteFlowAgain
    \/ AnalyzeAgain
    \/ AnalyzeInNewProcess
SpecAnalyze == InitAnalyze /\ [][NextAnalyze]_vars

\* The entities a route's handler uses, in the order its source names them.
EntitiesInSource(p, view_name) ==
    models_encountered(find_view_definition(p.files[ViewsPath], view_name).calls, 1)

\* C4: for a route whose resolved handler uses two entities (and no
\* validator), the derived sequence has exactly the 4 steps route, handler,
\* entity1, entity2, the entities in the order of their first encounter in
\* the handler's source.
C4_TwoEntitySequence ==
    pc = "done" =>
        \A i \in 1..Len(routes) :
            LET view_data == DictGet(views, routes[i].view_name)
                used == EntitiesInSource(project, routes[i].view_name)
            IN  (view_data.found /\ Len(used) = 2 /\ view_data.forms_used = <<>>) =>
                    \E k \in 1..Len(flow_sequences) :
                        /\ flow_sequences[k].url = routes[i].pattern
                        /\ flow_sequences[k].steps =
                               <<Step("url", routes[i].pattern),
                                 Step("view", routes[i].view_name),
                                 Step("model", used[1]),
                                 Step("model", used[2])>>

\* C5: a route whose handler was not resolved (found = FALSE) contributes no
\* sequence: no derived sequence of its pattern names its handler.
C5_UnresolvedNoSequence ==
    pc = "done" =>
        \A i \in 1..Len(routes) :
            ~DictGet(views, routes[i].view_name).found =>
                ~\E k \in 1..Len(flow_sequences) :
                    /\ flow_sequences[k].url = routes[i].pattern
                    /\ Len(flow_sequences[k].steps) >= 2
                    /\ flow_sequences[k].steps[2] = Step("view", routes[i].view_name)

\* The relationship fields of models.py whose target is a quoted name that
\* no model class of the file bears, as <<class name, field>> pairs.
UnresolvedRelationships(p) ==
    LET classes == p.files[ModelsPath].classes
        model_classes == {i \in 1..Len(classes) : is_django_model(classes[i])}
        known == {classes[i].name : i \in model_classes}
    IN  {x \in UNION {{<<classes[i].name, classes[i].fields[j]>> :
                           j \in 1..Len(classes[i].fields)} : i \in model_classes} :
            /\ x[2].type \in RelationshipTypes
            /\ x[2].quoted
            /\ x[2].target \notin known}

\* C6: a relationship field whose quoted target matches no known entity is
\* kept in its entity's relationships with the target string unchanged, and
\* the flow graph holds no edge for it: none touches a node of the target,
\* none leaves the entity's node.
C6_UnresolvedRelationshipKept ==
    (pc = "done" /\ project.files[ModelsPath].ok) =>
        \A x \in UnresolvedRelationships(project) :
            /\ DictHas(models, x[1])
            /\ \E k \in 1..Len(DictGet(models, x[1]).relationships) :
                   DictGet(models, x[1]).relationships[k] =
                       [field |-> x[2].name, type |-> x[2].type,
                        related_model |-> x[2].target]
            /\ \A k \in 1..Len(edges) :
                   /\ edges[k].from # make_id("model", x[1])
                   /\ edges[k].from # make_id("model", x[2].target)
                   /\ edges[k].to # make_id("model", x[2].target)

C6_Witness ==
    /\ pc = "done"
    /\ UnresolvedRelationships(project) # {}
    /\ DictHas(models, "Item")
    /\ \E k \in 1..Len(DictGet(models, "Item").relationships) :
           DictGet(models, "Item").relationships[k].related_model = "Ghost"
    /\ \E k \in 1..Len(edges) : edges[k].to = make_id("model", "Item")

\* C7: the flow graph holds no self-edge of type inherits or calls, also
\* when a class lists itself as a base class or a function calls itself.
C7_NoSelfEdge ==
    pc = "done" =>
        \A k \in 1..Len(edges) :
            edges[k].type \in {"inherits", "calls"} => edges[k].from # edges[k].to

C7_Witness ==
    /\ pc = "done"
    /\ \E i \in 1..Len(parsed_files) :
           /\ \E j \in 1..Len(parsed_files[i].value.classes) :
                  parsed_files[i].value.classes[j].name \in
                      Range(parsed_files[i].value.classes[j].base_classes)
           /\ \E j \in 1..Len(parsed_files[i].value.functions) :
                  parsed_files[i].value.functions[j].name \in
                      Range(parsed_files[i].value.functions[j].calls)
    /\ \E k \in 1..Len(edges) : edges[k].type = "inherits"

\* The project's files that do not parse.
BrokenFiles(p) == {f \in DOMAIN p.files \ p.undecodable : ~p.files[f].ok}

\* The records of the result of analyze() that carry a parse diagnostic:
\* the result dict has no key for parse failures; the one place a
\* diagnostic is stored is the 'error' key of a view's dict.
ParseFailures ==
    LET HasError(item) == item.value.error # None
    IN  SelectSeq(views, HasError)

\* C8: when one file has invalid syntax, analyze still returns what the
\* other files contribute (their parsed-file entries, the routes, the
\* entities), and the result records exactly one parse failure, carrying
\* the bad file's path and a diagnostic.
C8_MalformedFileTolerance ==
    (pc = "done" /\ Cardinality(BrokenFiles(project)) = 1) =>
        LET bad == CHOOSE f \in BrokenFiles(project) : TRUE
            Good(f) == f \in DOMAIN project.files /\ f # bad
        IN  /\ DictKeys(parsed_files) = SelectSeq(ProjectFiles, Good)
            /\ \A i \in 1..Len(project.urls) :
                   \E k \in 1..Len(routes) :
                       /\ routes[k].pattern = project.urls[i].pattern
                       /\ routes[k].view_name = project.urls[i].view_ref
            /\ bad # ModelsPath =>
                   \A i \in 1..Len(project.files[ModelsPath].classes) :
                       DictHas(models, project.files[ModelsPath].classes[i].name)
            /\ Len(ParseFailures) = 1
            /\ ParseFailures[1].value.file \in {bad, AbsPath(bad)}
            /\ ParseFailures[1].value.error # None

\* C9: a second analyze run over the unchanged project, on the same
\* analyzer or on a fresh one, returns the result of the first: the same
\* routes, handlers (entity and validator lists in the same order),
\* entities, dependency graph, flow-graph nodes and edges, and sequences.
C9_AnalyzeIdempotent ==
    (pc = "done" /\ runs >= 2) => Result = previous.result

\* C10: no two nodes of the flow graph share an id.
C10_UniqueNodeIds ==
    pc = "done" =>
        \A i, j \in 1..Len(nodes) : i # j => nodes[i].id # nodes[j].id

(***************************************************************************)
(* Error absorption, test files and handler resolution                     *)
(***************************************************************************)
\* C11: analyze never ends with an uncaught error: a file that cannot be
\* read, decoded or parsed is absorbed at whatever stage meets it (app
\* discovery and route extraction included), the later stages still run
\* and a result is returned.
C11_NoUncaughtError == pc # "crashed"


\* The stages at which the parsed-file table of the current run is filled.
AfterParsing == pc \in {"parsed", "urls", "models", "views", "deps", "done"}

\* The project's files whose name contains 'test' and that parse.
TestFiles(p) ==
    {f \in DOMAIN p.files : Contains(FileName(f), "test") /\ p.files[f].ok}

\* C12: under the default configuration, the files whose name contains
\* 'test' are in the parsed-file table when analyze runs with
\* include_tests = true, and are not in it with include_tests = false.
C12_IncludeTests ==
    AfterParsing =>
        \A f \in TestFiles(project) :
            DictHas(parsed_files, f) <=> project.include_tests

\* The stages at which the handler map of the current run is filled.
AfterViews == pc \in {"views", "deps", "done"}

\* The candidate view file defines a function or class called name.
DefinedInViews(p, name) ==
    /\ ViewsPath \notin p.undecodable
    /\ p.files[ViewsPath].ok
    /\ find_view_definition(p.files[ViewsPath], name).found

\* C13: a route whose handler reference is dotted (module.Name) is resolved
\* by the name after the last dot: when the view file defines a function
\* or class called Name, the handler stored under the reference is found,
\* with that file and the entities its definition uses.
C13_DottedReferenceResolved ==
    AfterViews =>
        \A k \in 1..Len(routes) :
            LET ref == routes[k].view_name
                name == LastDotted(ref)
            IN  (Contains(ref, ".") /\ DefinedInViews(project, name)) =>
                    /\ DictHas(views, ref)
                    /\ DictGet(views, ref).found
                    /\ DictGet(views, ref).file = ViewsPath
                    /\ Range(DictGet(views, ref).models_used) =
                           Range(models_encountered(
                               find_view_definition(project.files[ViewsPath],
                                                    name).calls, 1))

\* C14: every handler that cannot be resolved is in the handler map under
\* its route's reference with file = null and the kind declared by the
\* route, whichever way resolution failed (no candidate file, candidate
\* file unparsable, definition not found in the candidate file).
C14_UnresolvedHandlerShape ==
    AfterViews =>
        \A k \in 1..Len(routes) :
            LET ref == routes[k].view_name IN
            /\ DictHas(views, ref)
            /\ ~DictGet(views, ref).found =>
                   /\ DictGet(views, ref).file = None
                   /\ DictGet(views, ref).type = routes[k].view_type


(***************************************************************************)
(* Specification of import resolution and dependency-graph construction    *)
(***************************************************************************)
InitImports == DepIdle /\ UrlIdle /\ FlowIdle /\ ImpInit /\ LogIdle
NextImports ==
    \/ ExtractImports
    \/ BuildModuleMap
    \/ ResolveAndBuildGraph
SpecImports == InitImports /\ [][NextImports]_vars

\* The number of times x occurs in the list s.
Occurrences(s, x) == Cardinality({i \in 1..Len(s) : s[i] = x})

\* C15: in the graph build_dependency_graph returns, for all keys f and g,
\* f is in dependents(g) exactly when g is in depends_on(f), and f is in
\* dependents(g) at most once.
C15_DependentsMirrorDependsOn ==
    ipc = "done" =>
        \A f \in Range(graph.keys) : \A g \in Range(graph.keys) :
            /\ f \in Range(graph.dependents[g]) <=> g \in Range(graph.depends_on[f])
            /\ Occurrences(graph.dependents[g], f) <= 1

\* A graph was built from a file that imports one parsed file twice and
\* from a file that depends on a file that is not a key.
C15_Witness ==
    /\ ipc = "done"
    /\ \E i \in 1..Len(all_files) :
           \E g \in Range(graph.keys) :
               /\ Occurrences(all_files[i].value.resolved_imports.dependencies, g) = 2
               /\ all_files[i].key \in Range(graph.dependents[g])
    /\ \E f \in Range(graph.keys) :
           Range(graph.depends_on[f]) \ Range(graph.keys) # {}

\* n dots
RECURSIVE Dots(_)
Dots(n) == IF n = 0 THEN "" ELSE "." \o Dots(n - 1)

\* The file a relative import statement of current_file names: the
\* resolver's relative resolution of the module text with its dots.
RelativeTarget(disk, current_file, stmt) ==
    resolve_relative_import(disk, current_file,
        [type |-> stmt.type, module |-> Dots(stmt.level) \o stmt.module,
         name |-> stmt.name]).file_path

\* C16: a relative import with n leading dots in file F, parsed and passed
\* to the resolver, is resolved against the directory n-1 levels above F's
\* directory: when the file it names exists, the import's resolution is
\* internal with that file, which is among F's dependencies (so it is not
\* resolved as the absolute module of the same name).
C16_RelativeImportResolved ==
    ipc = "done" =>
        \A i \in 1..Len(all_files) :
            LET F == all_files[i].key
                stmts == import_project.imports[F]
            IN  \A j \in 1..Len(stmts) :
                    LET expected == RelativeTarget(import_project.disk, F, stmts[j]) IN
                    (stmts[j].level >= 1 /\ expected # NoPath) =>
                        /\ \E r \in Range(all_files[i].value.resolved_imports.internal) :
                               /\ r.import_info = all_files[i].value.imports[j]
                               /\ r.file_path = expected
                        /\ expected \in Range(graph.depends_on[F])


(***************************************************************************)
(* Route extraction: prefixes of included files, custom actions            *)
(***************************************************************************)
RootFile == "proj/urls.py"

\* C17: a declaration of a routing file that the root file includes with
\* prefix P is returned with the pattern P + its own pattern, and is not
\* returned a second time with its bare pattern (unless the root file
\* itself declares that very route).
C17_PrefixExpanded ==
    (upc = "done" /\ ucalls = 1 /\ FindRootUrlconf(url_project) = RootFile) =>
        \A n \in 1..Len(url_project.files[RootFile].includes) :
            LET inc == url_project.files[RootFile].includes[n]
                include_path == ModuleFile(inc.module)
                own == {RoutePair(r) :
                           r \in Range(DjangoRoutes(url_project.files[RootFile].paths, 1, ""))}
            IN  include_path \in DOMAIN url_project.files =>
                    \A i \in 1..Len(url_project.files[include_path].paths) :
                        LET decl == url_project.files[include_path].paths[i]
                            full == DjangoRoute(decl, inc.prefix)
                            bare == DjangoRoute(decl, "")
                        IN  /\ \E j \in 1..Len(extracted) : extracted[j] = full
                            /\ RoutePair(bare) \notin own =>
                                   \A j \in 1..Len(extracted) :
                                       RoutePair(extracted[j]) # RoutePair(bare)

\* The actions of the two routes every registration yields.
StandardActions == {"list/create", "retrieve/update/delete"}

\* C18: the custom-action routes of a router.register whose target class T
\* is defined in the view file are exactly the @action methods of T; an
\* @action method of another class of that file yields no route for T.
C18_ActionsOfTargetOnly ==
    (upc = "done" /\ ucalls = 1) =>
        \A f \in DOMAIN url_project.files :
            \A n \in 1..Len(url_project.files[f].registers) :
                LET reg  == url_project.files[f].registers[n]
                    T    == LastDotted(reg.target)
                    defs == DefinitionsOf(url_project, T)
                    generated ==
                        {extracted[j].action :
                            j \in {k \in 1..Len(extracted) :
                                      /\ extracted[k].view_type = "viewset"
                                      /\ extracted[k].view_name = "views." \o T
                                      /\ extracted[k].action \notin StandardActions}}
                IN  Cardinality(defs) = 1 =>
                    LET def == CHOOSE x \in defs : TRUE
                    IN  generated = Range(url_project.views[def[1]][def[2]].actions)


(***************************************************************************)
(* Reported cycles                                                         *)
(***************************************************************************)
\* C19: every cycle find_circular_dependencies reports is a closed path of
\* the graph: it starts and ends with the same file, each element depends
\* on the next, no file but the closing one occurs twice; and no cycle is
\* reported twice.
C19_CyclesAreClosedPaths ==
    dpc = "done" =>
        /\ \A k \in 1..Len(circular) :
               LET cycle == circular[k] IN
               /\ Len(cycle) >= 2
               /\ cycle[1] = cycle[Len(cycle)]
               /\ \A i \in 1..(Len(cycle) - 1) :
                      cycle[i + 1] \in Range(DependsOn(dependency_graph, cycle[i]))
               /\ \A i, j \in 1..(Len(cycle) - 1) : i # j => cycle[i] # cycle[j]
        /\ \A k1, k2 \in 1..Len(circular) : k1 # k2 => circular[k1] # circular[k2]

\* Two cycles were reported, one of them between two files and closing
\* below the root of the search.
C19_Witness ==
    /\ dpc = "done"
    /\ Len(circular) >= 2
    /\ \E k \in 1..Len(circular) :
           /\ Len(circular[k]) = 3
           /\ circular[k][1] # dependency_graph.keys[1]

\* The files the files of S depend on.
Succ(g, S) == UNION {Range(DependsOn(g, x)) : x \in S}

RECURSIVE ReachFrom(_, _, _)
\* The files reached from S in at most n further steps.
ReachFrom(g, S, n) == IF n = 0 THEN S ELSE ReachFrom(g, S \cup Succ(g, S), n - 1)

\* f lies on a directed depends_on cycle.
OnCycle(g, f) == f \in ReachFrom(g, Succ(g, {f}), Len(g.keys))

\* C20: every file that lies on a directed depends_on cycle is in some
\* reported cycle.
C20_NoCycleDropped ==
    dpc = "done" =>
        \A f \in Range(dependency_graph.keys) :
            OnCycle(dependency_graph, f) =>
                \E k \in 1..Len(circular) : f \in Range(circular[k])


(***************************************************************************)
(* Classification of imports                                               *)
(***************************************************************************)
\* The import resolves to a project file (the test of lines 204-205).
ResolvesToProjectFile(current_file, import_info) ==
    LET resolved == resolve_import(module_map, import_project.disk,
                                   current_file, import_info)
    IN  resolved.source = "internal" /\ resolved.file_path # NoPath

\* The import adds its package to external_packages (lines 229-235).
CountsAsExternal(import_info) ==
    /\ import_info.module # ""
    /\ is_external_package(module_map, import_project.disk, import_info.module)

\* C21: build_dependency_graph classifies each import of a file one way:
\* an import that resolves to a project file puts that file in depends_on
\* and adds nothing to external_packages; an import that does not puts its
\* top-level package name in external_packages.
C21_ImportClassifiedOnce ==
    ipc = "done" =>
        \A i \in 1..Len(all_files) :
            LET F == all_files[i].key
                imports == all_files[i].value.imports
            IN  \A j \in 1..Len(imports) :
                    IF ResolvesToProjectFile(F, imports[j])
                    THEN /\ resolve_import(module_map, import_project.disk, F,
                                           imports[j]).file_path
                                \in Range(graph.depends_on[F])
                         /\ ~CountsAsExternal(imports[j])
                    ELSE /\ CountsAsExternal(imports[j])
                         /\ SplitDots(imports[j].module)[1]
                                \in graph.external_packages[F]

(***************************************************************************)
(* Nodes, edges and sequences of the flow graph                            *)
(***************************************************************************)
\* The handler (view) node of a route's reference is in the graph.
HasViewNode(ref) ==
    \E n \in 1..Len(nodes) : nodes[n].type = "view" /\ nodes[n].label = ref

\* The parsed files hold a top-level function called name.
ParsedFunction(name) ==
    \E i \in 1..Len(parsed_files) :
        \E j \in 1..Len(parsed_files[i].value.functions) :
            parsed_files[i].value.functions[j].name = name

\* C22: a parsed top-level function that is the target of a route and has a
\* handler (view) node gets no node of type function: the graph has no
\* function node labelled with that function's name.
C22_NoFunctionNodeForHandler ==
    pc = "done" =>
        \A k \in 1..Len(routes) :
            LET ref == routes[k].view_name IN
            (ParsedFunction(ref) /\ HasViewNode(ref)) =>
                ~\E n \in 1..Len(nodes) :
                    nodes[n].type = "function" /\ nodes[n].label = ref

\* The classes of the parsed files whose source has a method calling
\* E.objects.<...> for an entity E found by the model tracker, as pairs
\* <<class name, E>>.
QueryingClasses ==
    {<<project.files[f].classes[c].name,
       FirstDotted(project.files[f].classes[c].methods[m].calls[k].name)>> :
        <<f, c, m, k>> \in
            {t \in (DOMAIN project.files) \X (1..4) \X (1..4) \X (1..4) :
                /\ DictHas(parsed_files, t[1])
                /\ t[2] \in 1..Len(project.files[t[1]].classes)
                /\ t[3] \in 1..Len(project.files[t[1]].classes[t[2]].methods)
                /\ t[4] \in 1..Len(project.files[t[1]].classes[t[2]].methods[t[3]].calls)
                /\ Contains(project.files[t[1]].classes[t[2]].methods[t[3]].calls[t[4]].name,
                            ".objects.")
                /\ DictHas(models,
                           FirstDotted(project.files[t[1]].classes[t[2]].methods[t[3]].calls[t[4]].name))}}

\* C23: when a method body of a parsed class holds a call E.objects.<...>
\* whose receiver E is a known entity, the graph of the pipeline has a
\* queries edge from that class to E.
C23_QueriesEdgeForManagerCall ==
    pc = "done" =>
        \A q \in QueryingClasses :
            \E e \in 1..Len(edges) :
                /\ edges[e].type = "queries"
                /\ edges[e].from = make_id("class", q[1])
                /\ edges[e].to = make_id("model", q[2])

\* C24: the sequence of a route with a resolved handler lists the route, the
\* handler, one step per entity the handler uses, then one step per
\* validator the handler uses, the validators being its forms and its
\* serializers.
C24_SequenceListsValidators ==
    pc = "done" =>
        \A i \in 1..Len(routes) :
            LET view_data == DictGet(views, routes[i].view_name)
                m == Len(view_data.models_used)
            IN  view_data.found =>
                    \E k \in 1..Len(flow_sequences) :
                        LET names == [j \in 1..Len(flow_sequences[k].steps) |->
                                         flow_sequences[k].steps[j].name]
                        IN  /\ flow_sequences[k].url = routes[i].pattern
                            /\ Len(names) = 2 + m + Len(view_data.forms_used)
                                              + Len(view_data.serializers_used)
                            /\ SubSeq(names, 1, 2 + m) =
                                   <<routes[i].pattern, routes[i].view_name>>
                                   \o view_data.models_used
                            /\ Range(SubSeq(names, 3 + m, Len(names))) =
                                   Range(view_data.forms_used)
                                   \cup Range(view_data.serializers_used)

\* C26: every edge of the flow graph, whatever its type, connects two
\* nodes of the node list, also when its source is a class skipped as an
\* entity or a class-style handler.
C26_EdgesConnectNodes ==
    pc = "done" =>
        \A e \in 1..Len(edges) :
            /\ node_exists_by_id(nodes, edges[e].from)
            /\ node_exists_by_id(nodes, edges[e].to)

\* C27: a second call of build_complete_flow on the same FlowBuilder
\* returns the nodes, edges and sequences the first call returned; nothing
\* of the first call accumulates into the result of the second.
C27_RebuildReturnsSameFlow ==
    pc = "rebuilt" =>
        /\ nodes = previous.result.flow_graph.nodes
        /\ edges = previous.result.flow_graph.edges
        /\ flow_sequences = previous.result.sequences

\* The stages at which the entity map of the current run is filled.
AfterModels == pc \in {"models", "views", "deps", "done", "rebuilt"}

\* The entity classes called name that the models file f defines.
EntityClasses(p, f, name) ==
    {p.files[f].classes[c] : c \in
        {c \in 1..Len(p.files[f].classes) :
            /\ p.files[f].ok
            /\ is_django_model(p.files[f].classes[c])
            /\ p.files[f].classes[c].name = name}}

\* C25: when two models files each define an entity of the same name, the
\* entity map keeps the definition of the file visited first; the one
\* visited later does not replace it.
C25_FirstDefinitionKept ==
    AfterModels =>
        \A i, j \in 1..Len(project.models_order) :
            \A name \in HashedNames :
                LET first == project.models_order[i]
                    later == project.models_order[j]
                IN  (/\ i < j
                     /\ EntityClasses(project, first, name) # {}
                     /\ EntityClasses(project, later, name) # {}) =>
                        \E cls \in EntityClasses(project, first, name) :
                            DictGet(models, name) = extract_model_info(cls, first)

(***************************************************************************)
(* Include cycles                                                          *)
(***************************************************************************)
RECURSIVE UrlconfVisits(_, _, _, _), IncludeVisits(_, _, _, _, _)
\* The number of _parse_urlconf calls made on file f, and not abandoned at
\* the recursion limit, by _parse_urlconf(path) entered at nesting depth.
UrlconfVisits(fs, path, f, depth) ==
    IF depth > MaxIncludeDepth THEN 0
    ELSE (IF path = f THEN 1 ELSE 0)
         + IncludeVisits(fs, fs.files[path].includes, 1, f, depth)
IncludeVisits(fs, incs, i, f, depth) ==
    IF i > Len(incs) THEN 0
    ELSE (IF ModuleFile(incs[i].module) \in DOMAIN fs.files
          THEN UrlconfVisits(fs, ModuleFile(incs[i].module), f, depth + 1)
          ELSE 0)
         + IncludeVisits(fs, incs, i + 1, f, depth)

RECURSIVE OtherVisits(_, _, _, _)
\* The visits of f made by the scan of the routing files other than root.
OtherVisits(fs, i, root, f) ==
    IF i > Len(fs.order) THEN 0
    ELSE (IF fs.order[i] # root THEN UrlconfVisits(fs, fs.order[i], f, 1) ELSE 0)
         + OtherVisits(fs, i + 1, root, f)

\* The visits of f made by one extract_urls().
ExtractVisits(fs, f) ==
    LET root == FindRootUrlconf(fs) IN
    UrlconfVisits(fs, root, f, 1) + OtherVisits(fs, 1, root, f)

\* The include(...) declarations of the project, and those naming file f.
IncludeDecls(fs) ==
    {<<g, i>> \in (DOMAIN fs.files) \X (1..MaxPaths) :
        i \in 1..Len(fs.files[g].includes)}
IncludesNaming(fs, f) ==
    {d \in IncludeDecls(fs) : ModuleFile(fs.files[d[1]].includes[d[2]].module) = f}

\* C28: extract_urls follows includes a bounded number of times, also when
\* they form a cycle: a routing file is visited at most once by the scan
\* and once for each include(...) naming it, and no extracted route repeats
\* the prefix of an include.
C28_IncludeCycleBounded ==
    upc = "done" =>
        /\ \A f \in DOMAIN url_project.files :
               ExtractVisits(url_project, f)
                   <= 1 + Cardinality(IncludesNaming(url_project, f))
        /\ \A d \in IncludeDecls(url_project) :
               LET prefix == url_project.files[d[1]].includes[d[2]].prefix IN
               \A k \in 1..Len(extracted) :
                   ~Contains(extracted[k].pattern, prefix \o prefix)

(***************************************************************************)
(* Dependency trees                                                        *)
(***************************************************************************)
RECURSIVE TreePaths(_)
\* The root-to-leaf paths of a tree, as sequences of files.
TreePaths(t) ==
    IF t.dependencies = <<>> THEN {<<t.file>>}
    ELSE UNION {{<<t.file>> \o p : p \in TreePaths(t.dependencies[i])} :
                   i \in 1..Len(t.dependencies)}

\* C29: get_dependency_tree returns a tree for every graph, cyclic ones
\* included; no file occurs twice on a root-to-leaf path of it and no such
\* path holds more than max_depth + 1 files.
C29_TreePathsSimpleAndShort ==
    dpc = "tree" =>
        /\ Len(tree.result) = 1
        /\ tree.result[1].file = tree.file
        /\ \A p \in TreePaths(tree.result[1]) :
               /\ \A i, j \in 1..Len(p) : p[i] = p[j] => i = j
               /\ Len(p) <= tree.max_depth + 1

\* A tree built with max_depth = 1 on a cyclic graph: a dependency of the
\* root depends on the root again (cut as visited) and on a third file
\* (cut by the depth).
C29_Witness ==
    /\ dpc = "tree"
    /\ tree.max_depth = 1
    /\ \E p \in TreePaths(tree.result[1]) :
           /\ Len(p) = 2
           /\ p[1] \in Range(DependsOn(dependency_graph, p[2]))
           /\ \E f \in Range(DependsOn(dependency_graph, p[2])) : f \notin Range(p)

(***************************************************************************)
(* Specification of the request-logging middleware                         *)
(***************************************************************************)
InitLogger == DepIdle /\ UrlIdle /\ FlowIdle /\ ImpIdle /\ LogInit
NextLogger == PassThrough \/ LogRequest
SpecLogger == InitLogger /\ [][NextLogger]_vars

\* C30: with logging enabled, runtime_data.json holds every request made to
\* a path that is not excluded, each once, whether or not its handler
\* raised: its requests list has as many entries as such requests were
\* served, stats.total_requests is that number, and no entry has an
\* excluded path.
C30_RuntimeDataHoldsAll ==
    (lpc = "serving" /\ enabled) =>
        /\ Len(runtime_file.requests) = served
        /\ runtime_file.total_requests = served
        /\ \A i \in 1..Len(runtime_file.requests) :
               ~should_exclude(runtime_file.requests[i].path)

=============================================================================
